---- MODULE Spec2Model ----
(***************************************************************************)
(* Verification model of the ZTF follow-up pipeline scanner:               *)
(*   - GravWaveScanner (src/gw_scanner.py): credible-region threshold,     *)
(*     sky-map mask, alert filters;                                        *)
(*   - AmpelWizard (src/ampel_magic.py) / BaseScanner                      *)
(*     (src/nuztf/base_scanner.py): scan_cones, archive searches,          *)
(*     merge_alerts and the candidate cache.                               *)
(*                                                                         *)
(* Numbers.  Probabilities are integers in units of 1/100 of the whole     *)
(* sky (so prob_threshold 0.9 is 90); julian dates are integers in units   *)
(* of 0.01 day counted from an arbitrary origin.                           *)
(***************************************************************************)
EXTENDS Integers, Sequences, FiniteSets, TLC

VARIABLES
    \* ---- GravWaveScanner construction (sky map) ----
    data,            \* self.data[self.key]: per-pixel probability, a sequence
    prob_threshold,  \* self.prob_threshold
    pixel_threshold, \* self.pixel_threshold
    map_pix,         \* pixels whose coordinates are in self.map_coords
    built,           \* position of __init__: "new" | "ready" | "config_error"
    \* ---- candidate cache ----
    cache,           \* self.cache: dict objectId -> alert record
    upserts,         \* history: every record handed to the cache upsert, in order
    \* ---- merge_alerts applied to an input list ----
    alert_list,      \* the list handed to merge_alerts
    merged,          \* merge_alerts(alert_list)
    remerged,        \* merge_alerts(merged)
    selfmerged,      \* merge_alerts(merged + merged)
    mphase,          \* "input" | "merged" | "remerged" | "selfmerged"
    \* ---- the scanner and its archive ----
    archive,         \* the archive's alerts (with history) of every object id
    fast_query,      \* self.fast_query
    cone_ids,        \* self.cone_ids, a list
    cone_coords,     \* self.cone_coords, the list of cone centres
    scanned_pixels,  \* self.scanned_pixels, a list
    pc,              \* position of scan_cones: "idle" | "cones" | "objects"
                     \*   | "cache" | "summary"
    max_cones,       \* argument of the running scan_cones call
    ci,              \* index i of the cone loop (from 1)
    all_ztf_names,   \* all_ztf_names
    oi,              \* index of the name loop of ampel_object_search (from 1)
    results,         \* all_results of ampel_object_search
    tries,           \* failed attempts of the backoff-wrapped call under way
    issued,          \* history: cone-search requests sent, per cone centre
    returned,        \* history: cone searches that returned, per cone id
    calls,           \* history: the scan_cones calls, argument and outcome
    t_min,           \* self.t_min.jd
    obj_requests,    \* history: object-search requests of the running call,
                     \*   per object id
    run_failed,      \* history: a request of the running call has failed
    run_start,       \* history: len(self.scanned_pixels) when the call began
    run_cache,       \* history: self.cache when the call began
    run_error,       \* history: the archive call that failed the running
                     \*   call: "none" | "cone" | "object" | "cutouts"
    \* ---- a filter applied to one record ----
    \* ---- create_candidate_summary ----
    scanner_class,   \* the class of the scanner: "AmpelWizard" | "BaseScanner"
    pages,           \* the names of the pages saved to the pdf, in order
    warned,          \* the names the "will be missing" warning was printed for
    ri,              \* index of the loop over sorted(self.cache.items())
    rpos,            \* "loop" | "done" | "TypeError" | "RequestException"
    \* ---- the coordinates handed to the cone search ----
    queries,         \* history: (cone_id, ra, dec) of every ampel_cone_search
    \* ---- parse_nu_gcn: the circulars of the GCN server ----
    base_nu_name,    \* the event name handed to find_gcn_no
    event_known,     \* whether allEventCard has an edge for the name
    circulars,       \* the edges of allCirculars, in the order of the answer
    gcn_fn,          \* the function called, "none" before
    gcn_out,         \* what the call returned or raised
    \* ---- observation_log: the nightly logs of the telescope ----
    server_log,      \* the observations in the nightly logs on the server
    csv_cache,       \* the cached nightly logs: night -> rows of its csv file
    obs_now,         \* Time.now(), in half days
    obs_out,         \* history: arguments and rows of every get_obs_summary
    mro_caller,      \* who calls get_most_recent_obs: "irsa" | "direct"
    names_bound,     \* whether logger, np and u are bound in the module
    target_fields,   \* get_fields_containing_target(ra, dec)
    mro_pos,         \* "none" | "loop" | "returned" | "TypeError" | "NameError"
    day_range,       \* the local day_range of get_most_recent_obs
    mro_windows,     \* history: the lookback, in days, of every query of the loop
    mro_out,         \* the row get_most_recent_obs returned
    \* ---- BaseScanner.ampel_timerange_search ----
    tr_result,       \* the list the last ampel_timerange_search returned
    \* ---- the filters applied to one record ----
    rec,             \* the record handed to the filter
    t_max,           \* t_max of the scan_cones call that applies the filter
    fname,           \* the filter applied, "none" before
    verdict,         \* "pass" | "reject" | "KeyError", "none" before
    \* ---- the archive client: one decorated call at a time ----
    now,             \* the clock, in seconds
    op,              \* the client operation under way, "none" between calls
    cstate,          \* "idle" | "limits" | "backoff" | "returned" | "raised"
    started,         \* the clock when backoff entered the function
    limiter,         \* per rate-limited function: last_reset and num_calls
                     \*   of its RateLimitDecorator
    last_status,     \* status of the latest response of the call, 0 before
    ncalls,          \* client calls made so far
    sent,            \* history: the HTTP requests sent
    \* ---- GravWaveScanner.__init__ step by step ----
    gw_file,         \* argument gw_file: "None" or "file"
    rev,             \* argument rev: 0 for None, else the revision asked for
    voevents,        \* the event's voevents upstream, by kind of notice
    cpos,            \* position of __init__
    done             \* history: what construction and use have done so far

skyVars == <<data, prob_threshold, pixel_threshold, map_pix, built>>

cacheVars == <<cache, upserts>>

mergeVars == <<alert_list, merged, remerged, selfmerged, mphase>>

runVars == <<obj_requests, run_failed, run_start, run_cache, run_error>>

scanVars == <<archive, fast_query, cone_ids, cone_coords, scanned_pixels, pc,
              max_cones, ci, all_ztf_names, oi, results, tries, issued,
              returned, calls, t_min, runVars>>

filterVars == <<rec, t_max, fname, verdict>>

clientVars == <<now, op, cstate, started, limiter, last_status, ncalls, sent>>

constructVars == <<gw_file, rev, voevents, cpos, done>>

timerangeVars == <<tr_result>>

classVars == <<scanner_class>>

reportVars == <<pages, warned, ri, rpos>>

coordVars == <<queries>>

gcnVars == <<base_nu_name, event_known, circulars, gcn_fn, gcn_out>>

obsVars == <<server_log, csv_cache, obs_now, obs_out, mro_caller,
             names_bound, target_fields, mro_pos, day_range, mro_windows,
             mro_out>>

moreVars == <<timerangeVars, classVars, reportVars, coordVars, gcnVars,
              obsVars>>

auxVars == <<filterVars, clientVars, constructVars, moreVars>>

vars == <<skyVars, cacheVars, mergeVars, scanVars, auxVars>>

-----------------------------------------------------------------------------
(* Each specification below exercises one part of the program; the state   *)
(* of the parts it does not use stays at these values.                     *)

SkyIdle ==
    /\ data = <<>>
    /\ prob_threshold = 0
    /\ pixel_threshold = 0
    /\ map_pix = {}
    /\ built = "off"

MergeIdle ==
    /\ alert_list = <<>>
    /\ merged = <<>>
    /\ remerged = <<>>
    /\ selfmerged = <<>>
    /\ mphase = "off"

ScannerOff ==
    /\ archive = <<>>
    /\ fast_query = FALSE
    /\ cone_ids = <<>>
    /\ cone_coords = <<>>
    /\ scanned_pixels = <<>>
    /\ pc = "off"
    /\ max_cones = 0
    /\ ci = 0
    /\ all_ztf_names = <<>>
    /\ oi = 0
    /\ results = <<>>
    /\ tries = 0
    /\ issued = <<>>
    /\ returned = <<>>
    /\ calls = <<>>
    /\ obj_requests = <<>>
    /\ run_failed = FALSE
    /\ run_start = 0
    /\ run_cache = <<>>
    /\ run_error = "none"

ScanIdle == ScannerOff /\ t_min = 0

FilterIdle ==
    /\ rec = <<>>
    /\ t_max = 0
    /\ fname = "off"
    /\ verdict = "off"

ClientIdle ==
    /\ now = 0
    /\ op = "off"
    /\ cstate = "off"
    /\ started = 0
    /\ limiter = <<>>
    /\ last_status = 0
    /\ ncalls = 0
    /\ sent = <<>>

ConstructIdle ==
    /\ gw_file = "off"
    /\ rev = 0
    /\ voevents = <<>>
    /\ cpos = "off"
    /\ done = {}

TimerangeIdle == tr_result = <<>>

ClassIdle == scanner_class = "off"

ReportIdle ==
    /\ pages = <<>>
    /\ warned = {}
    /\ ri = 0
    /\ rpos = "off"

CoordIdle == queries = <<>>

GcnIdle ==
    /\ base_nu_name = "off"
    /\ event_known = FALSE
    /\ circulars = <<>>
    /\ gcn_fn = "off"
    /\ gcn_out = <<>>

ObsIdle ==
    /\ server_log = {}
    /\ csv_cache = <<>>
    /\ obs_now = 0
    /\ obs_out = <<>>
    /\ mro_caller = "off"
    /\ names_bound = FALSE
    /\ target_fields = {}
    /\ mro_pos = "off"
    /\ day_range = 0
    /\ mro_windows = <<>>
    /\ mro_out = <<>>

MoreIdle ==
    /\ TimerangeIdle
    /\ ClassIdle
    /\ ReportIdle
    /\ CoordIdle
    /\ GcnIdle
    /\ ObsIdle

AuxIdle == FilterIdle /\ ClientIdle /\ ConstructIdle /\ MoreIdle

-----------------------------------------------------------------------------
(* Generic helpers                                                         *)

Range(s) == {s[k] : k \in DOMAIN s}

RECURSIVE SumSeq(_)
SumSeq(s) == IF s = <<>> THEN 0 ELSE Head(s) + SumSeq(Tail(s))

RECURSIVE SumOver(_, _)
SumOver(f, S) ==
    IF S = {} THEN 0
    ELSE LET x == CHOOSE y \in S : TRUE IN f[x] + SumOver(f, S \ {x})

\* Insert v into the descending sequence s, keeping it descending.
RECURSIVE InsertDesc(_, _)
InsertDesc(v, s) ==
    IF s = <<>> THEN <<v>>
    ELSE IF v >= Head(s) THEN <<v>> \o s
    ELSE <<Head(s)>> \o InsertDesc(v, Tail(s))

\* np.sort(data)[::-1]
RECURSIVE SortDesc(_)
SortDesc(s) == IF s = <<>> THEN <<>> ELSE InsertDesc(Head(s), SortDesc(Tail(s)))

-----------------------------------------------------------------------------
(* Alert records                                                           *)

\* One detection (the "candidate" of an alert, or an entry of prv_candidates).
\*   pos: sky position (ra, dec), as the sky-map pixel it is the centre of;
\*   rb:  real-bogus score in tenths.
Det(jd, candid, jdstarthist, jdendhist, isdiffpos, pos, rb) ==
    [jd |-> jd, candid |-> candid, jdstarthist |-> jdstarthist,
     jdendhist |-> jdendhist, isdiffpos |-> isdiffpos, pos |-> pos, rb |-> rb]

Alert(objectId, candidate, prv_candidates) ==
    [objectId |-> objectId, candidate |-> candidate,
     prv_candidates |-> prv_candidates]

\* dict()
EmptyDict == [k \in {} |-> k]

\* d[key] = value
DictPut(d, key, value) ==
    [k \in DOMAIN d \cup {key} |-> IF k = key THEN value ELSE d[k]]

-----------------------------------------------------------------------------
(* AmpelWizard.merge_alerts                                                *)

\* list(set(ids)): the iteration order of a Python set is a function of its
\* elements' hashes; it is modelled as one fixed order of the object ids.
ObjOrder == <<"ZTFa", "ZTFb", "ZTFc">>

ListOfSet(S) == SelectSeq(ObjOrder, LAMBDA o : o \in S)

\* list.index(v): the position of the first element equal to v
IndexOf(s, v) ==
    CHOOSE i \in DOMAIN s : s[i] = v /\ \A j \in 1..(i - 1) : s[j] # v

MaxOf(S) == CHOOSE v \in S : \A w \in S : w <= v

MinOf(S) == CHOOSE v \in S : \A w \in S : v <= w

\* for prv in dets: if prv not in prvs: prvs = [prv] + prvs
RECURSIVE PrependNew(_, _)
PrependNew(prvs, dets) ==
    IF dets = <<>> THEN prvs
    ELSE IF Head(dets) \in Range(prvs)
         THEN PrependNew(prvs, Tail(dets))
         ELSE PrependNew(<<Head(dets)>> \o prvs, Tail(dets))

\* for index in order: x = alerts[index]; merge x into latest.  latest is
\* the list element alerts[li] itself, updated in place, so alerts[li] read
\* inside the loop is the current value of latest.
RECURSIVE MergeLoop(_, _, _, _)
MergeLoop(alerts, li, latest, order) ==
    IF order = <<>> THEN latest
    ELSE LET index == Head(order)
             x == IF index = li THEN latest ELSE alerts[index]
             latest2 ==
                 [latest EXCEPT !.prv_candidates =
                     PrependNew(@, x.prv_candidates \o <<x.candidate>>)]
         IN MergeLoop(alerts, li, latest2, Tail(order))

\* order = [jds.index(x) for x in sorted(jds)[::-1]]
MergeOrder(jds) ==
    LET ranked == SortDesc(jds)
    IN [r \in 1..Len(jds) |-> IndexOf(jds, ranked[r])]

\* Mutant of EarliestStart: keeps the latest start of history.
EarliestStart_Max(alerts) ==
    MaxOf({alerts[k].candidate.jdstarthist : k \in DOMAIN alerts})

\* min([x["candidate"]["jdstarthist"] for x in alerts])
EarliestStart(alerts) ==
    MinOf({alerts[k].candidate.jdstarthist : k \in DOMAIN alerts})

\* The else branch: the alerts of one object id, more than one of them.
MergeSeveral(alerts) ==
    LET jds == [k \in DOMAIN alerts |-> alerts[k].candidate.jd]
        order == MergeOrder(jds)
        li == IndexOf(jds, MaxOf(Range(jds)))
        latest == [alerts[li] EXCEPT
                      !.candidate.jdstarthist = EarliestStart(alerts)]
    IN MergeLoop(alerts, li, latest, Tail(order))

\* alerts = [x for x in alert_list if x["objectId"] == objectid]
AlertsOf(list, objectid) == SelectSeq(list, LAMBDA x : x.objectId = objectid)

merge_alerts(list) ==
    LET keys == ListOfSet({list[k].objectId : k \in DOMAIN list})
    IN [n \in 1..Len(keys) |->
           LET alerts == AlertsOf(list, keys[n])
           IN IF Len(alerts) = 1 THEN alerts[1] ELSE MergeSeveral(alerts)]

MaxAlerts == 3       \* length of the list handed to merge_alerts (bound)

\* An earlier detection of object ZTFa (jd 0 or 1), found in the history of
\* its alerts.
OldDet(jd) == Det(jd, jd, jd, jd, "t", 1, 5)

\* Alerts drawn for object ZTFa: current detection at jd 2 or 3, two
\* different detections per jd, and four (jdstarthist, history) variants:
\* no history, one earlier detection, two in ascending and in descending jd.
MergeAlertsA ==
    {Alert("ZTFa", Det(jd, 10 * jd + k, h[1], jd, "t", 1, 5), h[2]) :
        jd \in {2, 3}, k \in {1, 2},
        h \in {<<2, <<>> >>, <<1, <<OldDet(1)>> >>,
               <<0, <<OldDet(0), OldDet(1)>> >>,
               <<0, <<OldDet(1), OldDet(0)>> >>}}

MergeAlertsB ==
    {Alert("ZTFb", Det(jd, 50 + jd, 1, jd, "t", 1, 5), <<>>) : jd \in {2, 3}}

MergeAlerts == MergeAlertsA \cup MergeAlertsB

RECURSIVE ListsUpTo(_, _)
ListsUpTo(S, n) ==
    IF n = 0 THEN {<<>>}
    ELSE LET shorter == ListsUpTo(S, n - 1)
         IN shorter \cup {Append(l, a) : l \in shorter, a \in S}

MergeInit ==
    /\ SkyIdle
    /\ ScanIdle
    /\ AuxIdle
    /\ cache = EmptyDict
    /\ upserts = <<>>
    /\ alert_list \in ListsUpTo(MergeAlerts, MaxAlerts)
    /\ merged = <<>>
    /\ remerged = <<>>
    /\ selfmerged = <<>>
    /\ mphase = "input"

\* merged = merge_alerts(alert_list)
Merge ==
    /\ mphase = "input"
    /\ merged' = merge_alerts(alert_list)
    /\ mphase' = "merged"
    /\ UNCHANGED <<alert_list, remerged, selfmerged, skyVars, cacheVars,
                   scanVars, auxVars>>

\* merge_alerts(merge_alerts(alert_list))
MergeAgain ==
    /\ mphase = "merged"
    /\ remerged' = merge_alerts(merged)
    /\ mphase' = "remerged"
    /\ UNCHANGED <<alert_list, merged, selfmerged, skyVars, cacheVars,
                   scanVars, auxVars>>

\* merge_alerts(merged + merged): the merged result merged with itself
MergeWithItself ==
    /\ mphase = "remerged"
    /\ selfmerged' = merge_alerts(merged \o merged)
    /\ mphase' = "selfmerged"
    /\ UNCHANGED <<alert_list, merged, remerged, skyVars, cacheVars, scanVars, auxVars>>

MergeNext == Merge \/ MergeAgain \/ MergeWithItself

MergeSpec == MergeInit /\ [][MergeNext]_vars

\* The current and previous detections of a record.
DetsOf(a) == Range(a.prv_candidates) \cup {a.candidate}

\* The same detection, whatever jdstarthist it carries (merge_alerts
\* overwrites the jdstarthist of the winning current detection).
SameDetection(d, e) ==
    [d EXCEPT !.jdstarthist = 0] = [e EXCEPT !.jdstarthist = 0]

\* The input records of one object id, in list order.
InputsOf(id) == SelectSeq(alert_list, LAMBDA x : x.objectId = id)

InputIds == {alert_list[k].objectId : k \in DOMAIN alert_list}

\* C6 (as claimed): merge_alerts is idempotent: merging the merged list
\* again returns it unchanged, and so does merging the merged list together
\* with itself.  The second part fails: a record met twice with the same jd
\* gets its own current detection prepended to prv_candidates.
C6_MergeIdempotent ==
    /\ mphase \in {"remerged", "selfmerged"} => remerged = merged
    /\ mphase = "selfmerged" => selfmerged = merged

\* C7 (as claimed): every current or previous detection of every input
\* record appears as the current detection or among prv_candidates of the
\* merged record of its object id, equal-jd records included.  With two
\* records of equal jd the second is never visited by the merge loop.
C7_NoDetectionDropped ==
    mphase # "input" =>
        \A k \in DOMAIN alert_list : \A d \in DetsOf(alert_list[k]) :
            \E n \in DOMAIN merged :
                /\ merged[n].objectId = alert_list[k].objectId
                /\ \E e \in DetsOf(merged[n]) : SameDetection(d, e)

\* C8: merge_alerts returns exactly one record per distinct objectId of
\* the input; a single record passes through unchanged; for several
\* records the current detection is an input current detection of maximum
\* jd, with jdstarthist set to the minimum jdstarthist of the inputs.
C8_OneRecordPerObject ==
    mphase # "input" =>
        /\ Len(merged) = Cardinality(InputIds)
        /\ {merged[n].objectId : n \in DOMAIN merged} = InputIds
        /\ \A n \in DOMAIN merged :
              LET ins == InputsOf(merged[n].objectId)
                  jdmax == MaxOf({ins[k].candidate.jd : k \in DOMAIN ins})
                  start == MinOf({ins[k].candidate.jdstarthist : k \in DOMAIN ins})
              IN IF Len(ins) = 1
                 THEN merged[n] = ins[1]
                 ELSE \E k \in DOMAIN ins :
                        /\ ins[k].candidate.jd = jdmax
                        /\ merged[n].candidate =
                              [ins[k].candidate EXCEPT !.jdstarthist = start]

\* C8 witness: two objects, one with a single record and one with two
\* records of different jd of which the older carries the earlier
\* jdstarthist; the merged record has the later detection and that start.
C8_Witness ==
    /\ mphase = "merged"
    /\ Len(merged) = 2
    /\ Len(InputsOf("ZTFb")) = 1
    /\ \E i, j \in DOMAIN alert_list :
          /\ alert_list[i].objectId = "ZTFa" /\ alert_list[j].objectId = "ZTFa"
          /\ alert_list[i].candidate.jd = 3 /\ alert_list[j].candidate.jd = 2
          /\ alert_list[i].candidate.jdstarthist = 2
          /\ alert_list[j].candidate.jdstarthist = 1
          /\ \E n \in DOMAIN merged :
                /\ merged[n].candidate.candid = alert_list[i].candidate.candid
                /\ merged[n].candidate.jdstarthist = 1

\* C9 (as claimed): in the merged record of an object with several input
\* records, prv_candidates has no duplicate, does not contain the winning
\* current detection, and is ordered by non-increasing jd.
C9_PrvCandidatesClean ==
    mphase # "input" =>
        \A n \in DOMAIN merged :
            Len(InputsOf(merged[n].objectId)) > 1 =>
                LET prv == merged[n].prv_candidates
                IN /\ \A i, j \in DOMAIN prv : i # j => prv[i] # prv[j]
                   /\ merged[n].candidate \notin Range(prv)
                   /\ \A i, j \in DOMAIN prv : i < j => prv[i].jd >= prv[j].jd

-----------------------------------------------------------------------------
(* Sky map: GravWaveScanner.find_pixel_threshold / unpack_skymap           *)

NPix == 4            \* pixels of the sky map (bound)

\* Pixel probabilities drawn, in hundredths.
ProbValues == {0, 5, 10, 15, 20, 30, 50}

\* Sky maps drawn: normalised (the probabilities sum to 1, i.e. to 100).
SkyMaps == {m \in [1..NPix -> ProbValues] : SumSeq(m) = 100}

\* prob_threshold values drawn: inside (0,1), and the values 1.0 and 1.1
\* for which the cumulative sum never exceeds the threshold.
ProbThresholds == {50, 90, 95, 100, 110}

\* The loop of find_pixel_threshold from rank i on, int_sum accumulated so far.
RECURSIVE ThresholdLoop(_, _, _, _)
ThresholdLoop(ranked_pixels, i, int_sum, thr) ==
    IF i > Len(ranked_pixels) THEN 0
    ELSE IF int_sum + ranked_pixels[i] > thr THEN ranked_pixels[i]
    ELSE ThresholdLoop(ranked_pixels, i + 1, int_sum + ranked_pixels[i], thr)

find_pixel_threshold(d, thr) == ThresholdLoop(SortDesc(d), 1, 0, thr)

\* mask = self.data[self.key] > threshold, as the set of selected pixels
unpack_skymap(d, thr) ==
    LET threshold == find_pixel_threshold(d, thr)
    IN {p \in DOMAIN d : d[p] > threshold}

\* The cumulative descending sum exceeds the threshold at some rank.
ThresholdReached(d, thr) == SumSeq(d) > thr

SkyInit ==
    /\ cache = EmptyDict
    /\ upserts = <<>>
    /\ MergeIdle
    /\ ScanIdle
    /\ AuxIdle
    /\ data \in SkyMaps
    /\ prob_threshold \in ProbThresholds
    /\ pixel_threshold = 0
    /\ map_pix = {}
    /\ built = "new"

\* GravWaveScanner.__init__: threshold, then mask; no step of it raises.
GravWaveScanner_init ==
    /\ built = "new"
    /\ pixel_threshold' = find_pixel_threshold(data, prob_threshold)
    /\ map_pix' = unpack_skymap(data, prob_threshold)
    /\ built' = "ready"
    /\ UNCHANGED <<data, prob_threshold, cacheVars, mergeVars, scanVars, auxVars>>

SkyNext == GravWaveScanner_init

SkySpec == SkyInit /\ [][SkyNext]_vars

\* Summed probability of a set of pixels of the map.
MaskProb(d, S) == SumOver(d, S)

\* C4 (as claimed): for a threshold inside (0,1) the selected pixels are
\* exactly those with probability >= pixel_threshold (the threshold pixel and
\* its ties included), so their summed probability is >= prob_threshold.
\* The code selects with a strict ">" and leaves the threshold pixel out.
C4_MaskIncludesThresholdPixel ==
    (built = "ready" /\ prob_threshold > 0 /\ prob_threshold < 100) =>
        /\ map_pix = {p \in DOMAIN data : data[p] >= pixel_threshold}
        /\ MaskProb(data, map_pix) >= prob_threshold

\* C5 (as claimed): when the cumulative descending sum never exceeds
\* prob_threshold, construction ends in a configuration error; it never
\* completes with pixel_threshold 0.  The code completes.
C5_UnreachedThresholdFailsFast ==
    (built # "new" /\ ~ThresholdReached(data, prob_threshold)) =>
        built = "config_error"

-----------------------------------------------------------------------------
(* Candidate cache: BaseScanner.add_res_to_cache and the cache loop of     *)
(* AmpelWizard.scan_cones                                                  *)

MaxUpserts == 4      \* records upserted in one behaviour (bound)

CacheObjectIds == {"ZTFa", "ZTFb"}

\* Records drawn for the upserts: two objects, two dates, and two different
\* detections (candid) per date so that equal-jd records can be told apart.
CacheAlerts ==
    {Alert(o, Det(jd, c, 1, jd, "t", 1, 5), <<>>) :
        o \in CacheObjectIds, jd \in {1, 2}, c \in {1, 2}}

\* Mutant of Replaces: an equal-jd record replaces the cached one.
Replaces_OrEqual(res_alert, cached) ==
    res_alert.candidate.jd >= cached.candidate.jd

\* The strictly-greater test guarding the replacement.
Replaces(res_alert, cached) == res_alert.candidate.jd > cached.candidate.jd

\* The body of the loop for one res_alert.
UpsertOne(c, res_alert) ==
    IF res_alert.objectId \notin DOMAIN c
    THEN DictPut(c, res_alert.objectId, res_alert)
    ELSE IF Replaces(res_alert, c[res_alert.objectId])
         THEN DictPut(c, res_alert.objectId, res_alert)
         ELSE c

\* for res_alert in res: ...
RECURSIVE add_res_to_cache(_, _)
add_res_to_cache(c, res) ==
    IF res = <<>> THEN c
    ELSE add_res_to_cache(UpsertOne(c, Head(res)), Tail(res))

CacheInit ==
    /\ SkyIdle
    /\ MergeIdle
    /\ ScanIdle
    /\ AuxIdle
    /\ cache = EmptyDict
    /\ upserts = <<>>

\* One call self.add_res_to_cache(res) with a list of one or two records.
AddResToCache ==
    \E res \in (CacheAlerts \X CacheAlerts) \cup {<<a>> : a \in CacheAlerts} :
        /\ Len(upserts) + Len(res) <= MaxUpserts
        /\ cache' = add_res_to_cache(cache, res)
        /\ upserts' = upserts \o res
        /\ UNCHANGED <<skyVars, mergeVars, scanVars, auxVars>>

CacheNext == AddResToCache

CacheSpec == CacheInit /\ [][CacheNext]_vars

\* The records upserted so far for one object id, in upsert order.
UpsertsOf(id) == SelectSeq(upserts, LAMBDA a : a.objectId = id)

\* The first record of recs among those with the maximum candidate jd.
FirstLatest(recs) ==
    LET k == CHOOSE i \in DOMAIN recs :
                /\ \A j \in DOMAIN recs : recs[j].candidate.jd <= recs[i].candidate.jd
                /\ \A j \in 1..(i - 1) : recs[j].candidate.jd < recs[i].candidate.jd
    IN recs[k]

\* C2: after any sequence of upserts, an object id is cached iff a record
\* of it was upserted, and the cached record is the first-seen one among
\* those with the maximum candidate jd (a later record replaces only when
\* its jd is strictly greater; an equal jd never replaces).
C2_CacheHoldsFirstLatest ==
    \A id \in DOMAIN cache \cup {a.objectId : a \in Range(upserts)} :
        /\ UpsertsOf(id) # <<>>
        /\ id \in DOMAIN cache
        /\ cache[id] = FirstLatest(UpsertsOf(id))

\* C2 witness: for one id, jd 2 was upserted, then jd 1, then a different
\* record of jd 2; the first jd-2 record is the one cached.
C2_Witness ==
    \E i, j, k \in DOMAIN upserts :
        /\ i < j /\ j < k
        /\ upserts[i].objectId = upserts[j].objectId
        /\ upserts[i].objectId = upserts[k].objectId
        /\ upserts[i].candidate.jd = 2
        /\ upserts[j].candidate.jd = 1
        /\ upserts[k].candidate.jd = 2
        /\ upserts[k] # upserts[i]
        /\ cache[upserts[i].objectId] = upserts[i]

-----------------------------------------------------------------------------
(* Filters: GravWaveScanner.filter_f_no_prv / fast_filter_f_no_prv /       *)
(* filter_f_history, AmpelWizard.filter_ampel                              *)

TMinJd == 2          \* t_min handed to the constructor, the event time
DefaultTMaxJd == 8   \* self.default_t_max.jd, Time.now() at construction
MinSpan == 1         \* 0.01 day between first and last detection
MIN_RB == 3          \* gw_run_config["MIN_RB"] = 0.3, in tenths

\* hpm.interpolate_bilinear_skycoord at a position: positions are pixel
\* centres, where the interpolated value is the pixel's own probability.
interpolate_map(pos) == data[pos]

in_contour(pos) == interpolate_map(pos) > pixel_threshold

\* The real-bogus cut of DecentFilter on the current detection stands for
\* ampel_filter_class.apply(...) is not None.
filter_ampel(res) == res.candidate.rb >= MIN_RB

\* Mutant of filter_f_no_prv: the polarity of the current detection is not
\* looked at.
filter_f_no_prv_AnyPolarity(res) ==
    IF res.candidate.jdstarthist < t_min THEN FALSE
    ELSE IF ~in_contour(res.candidate.pos) THEN FALSE
    ELSE TRUE

filter_f_no_prv(res) ==
    IF res.candidate.isdiffpos \notin {"t", "1"} THEN FALSE
    ELSE IF res.candidate.jdstarthist < t_min THEN FALSE
    ELSE IF ~in_contour(res.candidate.pos) THEN FALSE
    ELSE TRUE

fast_filter_f_no_prv(res) ==
    IF res.candidate.isdiffpos \notin {"t", "1"} THEN FALSE
    ELSE IF res.candidate.jdstarthist < t_min THEN FALSE
    ELSE IF res.candidate.jdendhist - res.candidate.jdstarthist < MinSpan
         THEN FALSE
    ELSE TRUE

filter_f_history(res) ==
    IF res.candidate.jdstarthist < t_min THEN FALSE
    ELSE IF res.candidate.jdendhist - res.candidate.jdstarthist < MinSpan
         THEN FALSE
    ELSE LET old_detections ==
                 SelectSeq(res.prv_candidates,
                           LAMBDA x : /\ x.isdiffpos # "None"
                                      /\ x.jd > t_min
                                      /\ x.jd < DefaultTMaxJd)
             pos_detections ==
                 SelectSeq(old_detections,
                           LAMBDA x : x.isdiffpos \in {"t", "1"})
         IN IF Len(pos_detections) < 1 THEN FALSE ELSE TRUE

-----------------------------------------------------------------------------
(* The archive behind the API                                              *)

\* Sky positions (pixel centres) inside the search radius of a cone centre;
\* neighbouring cones overlap.
ConeCover(centre) ==
    CASE centre = 1 -> {1, 2}
      [] centre = 2 -> {2, 3}
      [] centre = 3 -> {3, 4}
      [] OTHER -> {4}

ScanObjectIds == {"ZTFa", "ZTFb"}

\* Detections of object ZTFa (pixel 1, inside the contour).
A4 == Det(4, 104, 3, 4, "t", 1, 5)
A5 == Det(5, 105, 3, 5, "t", 1, 5)
A6neg == Det(6, 106, 3, 6, "f", 1, 5)
A5bogus == Det(5, 107, 3, 5, "t", 1, 1)
A9late == Det(9, 109, 3, 9, "t", 1, 5)

\* Detections of object ZTFb (pixel 2, inside the contour, seen from the
\* cones centred on 1 and on 2).
B4old == Det(4, 204, 1, 4, "t", 2, 5)
B4 == Det(4, 205, 3, 4, "t", 2, 5)
B5 == Det(5, 206, 3, 5, "t", 2, 5)

\* What the archive may hold for each object: nothing, a single alert, or a
\* first alert followed by a later one whose history holds the first.
ArchiveOptions(o) ==
    IF o = "ZTFa"
    THEN {<<>>,
          <<Alert(o, A4, <<>>)>>,
          <<Alert(o, A6neg, <<>>)>>,
          <<Alert(o, A4, <<>>), Alert(o, A5, <<A4>>)>>,
          <<Alert(o, A4, <<>>), Alert(o, A6neg, <<A4>>)>>,
          <<Alert(o, A4, <<>>), Alert(o, A5bogus, <<A4>>)>>,
          <<Alert(o, A4, <<>>), Alert(o, A9late, <<A4>>)>>}
    ELSE {<<>>,
          <<Alert(o, B4old, <<>>)>>,
          <<Alert(o, B4, <<>>), Alert(o, B5, <<B4>>)>>}

Archives == {f \in [ScanObjectIds -> UNION {ArchiveOptions(o) : o \in ScanObjectIds}] :
                \A o \in ScanObjectIds : f[o] \in ArchiveOptions(o)}

ArchiveAlerts == UNION {Range(archive[o]) : o \in DOMAIN archive}

\* The alerts answering /alerts/cone_search around a centre between t_min
\* and t_max, with_history=false.
ConeSearchResponse(centre) ==
    {[a EXCEPT !.prv_candidates = <<>>] :
        a \in {b \in ArchiveAlerts :
                  /\ b.candidate.pos \in ConeCover(centre)
                  /\ b.candidate.jd >= t_min
                  /\ b.candidate.jd <= DefaultTMaxJd}}

\* The alerts answering /object/<name>/alerts?with_history=true.
ObjectSearchResponse(ztf_name) == archive[ztf_name]

\* ampel_cone_search once its request has returned: the names passing the
\* first-pass filter and the ampel filter, deduplicated.
ampel_cone_search(centre) ==
    ListOfSet({res.objectId : res \in
                  {r \in ConeSearchResponse(centre) :
                       filter_f_no_prv(r) /\ filter_ampel(r)}})

\* Mutant of ObjectSearchOne: the merged records are kept without the
\* history filter.
ObjectSearchOne_Unfiltered(ztf_name) ==
    LET query_res == ObjectSearchResponse(ztf_name)
    IN IF ~fast_query
       THEN merge_alerts(query_res)
       ELSE SelectSeq(query_res,
                      LAMBDA res : fast_filter_f_no_prv(res) /\ filter_ampel(res))

\* Mutant of ObjectSearchOne: with fast_query the alerts are merged and put
\* through the history filter like without it.
ObjectSearchOne_AlwaysMerges(ztf_name) ==
    SelectSeq(merge_alerts(ObjectSearchResponse(ztf_name)), filter_f_history)

\* The body of the name loop of ampel_object_search for one name.
ObjectSearchOne(ztf_name) ==
    LET query_res == ObjectSearchResponse(ztf_name)
    IN IF ~fast_query
       THEN SelectSeq(merge_alerts(query_res), filter_f_history)
       ELSE SelectSeq(query_res,
                      LAMBDA res : fast_filter_f_no_prv(res) /\ filter_ampel(res))

-----------------------------------------------------------------------------
(* scan_cones: AmpelWizard.scan_cones (BaseScanner.scan_cones is the same  *)
(* loop followed by add_res_to_cache)                                      *)

MaxCalls == 2        \* scan_cones calls in one behaviour (bound)
MaxTries == 1        \* failed attempts backoff tolerates before max_time
                     \* is exceeded and the exception is re-raised (bound)

\* cones_to_scan handed to the constructor: lists of distinct cone ids, as
\* find_cone_coords builds them from a set.
ConeLists == {<<1, 2>>, <<3, 1, 2>>, <<1, 2, 3, 4>>}

ConeUniverse == UNION {Range(l) : l \in ConeLists}

\* extract_ra_dec: the centre of a cone, named by the cone it is the centre of
ConeCentre(cone_id) == cone_id

Min(a, b) == IF a <= b THEN a ELSE b

\* len(list(self.cone_ids)[:max_cones])
Limit == Min(max_cones, Len(cone_ids))

\* Mutant of AlreadyScanned: the scanned list is not consulted.
AlreadyScanned_Never(cone_id) == FALSE

\* cone_id in self.scanned_pixels
AlreadyScanned(cone_id) == cone_id \in Range(scanned_pixels)

SetOutcome(o) == [calls EXCEPT ![Len(calls)].outcome = o]

\* for res in results: for res_alert in res: upsert
RECURSIVE CacheLoop(_, _)
CacheLoop(c, res_lists) ==
    IF res_lists = <<>> THEN c
    ELSE CacheLoop(add_res_to_cache(c, Head(res_lists)), Tail(res_lists))

RECURSIVE Flatten(_)
Flatten(lists) ==
    IF lists = <<>> THEN <<>> ELSE Head(lists) \o Flatten(Tail(lists))

ScanInit ==
    /\ MergeIdle
    /\ AuxIdle
    /\ data = <<50, 30, 15, 5>>
    /\ prob_threshold = 90
    /\ pixel_threshold = find_pixel_threshold(data, prob_threshold)
    /\ map_pix = unpack_skymap(data, prob_threshold)
    /\ built = "ready"
    /\ cache = EmptyDict
    /\ upserts = <<>>
    /\ archive \in Archives
    /\ fast_query \in BOOLEAN
    /\ cone_ids \in ConeLists
    /\ cone_coords = [k \in DOMAIN cone_ids |-> ConeCentre(cone_ids[k])]
    /\ scanned_pixels = <<>>
    /\ pc = "idle"
    /\ max_cones = 0
    /\ ci = 1
    /\ all_ztf_names = <<>>
    /\ oi = 1
    /\ results = <<>>
    /\ tries = 0
    /\ issued = [c \in ConeUniverse |-> 0]
    /\ returned = [c \in ConeUniverse |-> 0]
    /\ calls = <<>>
    /\ t_min = TMinJd
    /\ obj_requests = [o \in ScanObjectIds |-> 0]
    /\ run_failed = FALSE
    /\ run_start = 0
    /\ run_cache = EmptyDict
    /\ run_error = "none"

\* The max_cones arguments drawn: half of the cones, or all of them
\* (max_cones=None is len(self.cone_ids)).
MaxConesArgs == {Len(cone_ids) \div 2, Len(cone_ids)}

\* scan_cones(max_cones=mc) is called.
ScanCones_Call ==
    \E mc \in MaxConesArgs :
        /\ pc = "idle"
        /\ Len(calls) < MaxCalls
        /\ max_cones' = mc
        /\ ci' = 1
        /\ all_ztf_names' = <<>>
        /\ oi' = 1
        /\ results' = <<>>
        /\ tries' = 0
        /\ pc' = "cones"
        /\ calls' = Append(calls, [max_cones |-> mc, outcome |-> "running"])
        /\ obj_requests' = [o \in ScanObjectIds |-> 0]
        /\ run_failed' = FALSE
        /\ run_start' = Len(scanned_pixels)
        /\ run_cache' = cache
        /\ run_error' = "none"
        /\ UNCHANGED <<archive, fast_query, t_min, cone_ids, cone_coords,
                       scanned_pixels, issued, returned, skyVars, cacheVars,
                       mergeVars, auxVars>>

\* The cone of this iteration is in scanned_pixels: nothing is done.
Cone_Skip ==
    /\ pc = "cones"
    /\ ci <= Limit
    /\ AlreadyScanned(cone_ids[ci])
    /\ ci' = ci + 1
    /\ UNCHANGED <<archive, fast_query, t_min, cone_ids, cone_coords, scanned_pixels,
                   pc, max_cones, all_ztf_names, oi, results, tries, issued,
                   returned, calls, skyVars, cacheVars, mergeVars, auxVars,
                   runVars>>

\* ampel_cone_search returns: its names are accumulated and the cone is
\* appended to scanned_pixels.
ConeSearch_Return ==
    /\ pc = "cones"
    /\ ci <= Limit
    /\ ~AlreadyScanned(cone_ids[ci])
    /\ issued' = [issued EXCEPT ![cone_coords[ci]] = @ + 1]
    /\ returned' = [returned EXCEPT ![cone_ids[ci]] = @ + 1]
    /\ all_ztf_names' = all_ztf_names \o ampel_cone_search(cone_coords[ci])
    /\ scanned_pixels' = Append(scanned_pixels, cone_ids[ci])
    /\ ci' = ci + 1
    /\ tries' = 0
    /\ UNCHANGED <<archive, fast_query, t_min, cone_ids, cone_coords, pc, max_cones,
                   oi, results, calls, skyVars, cacheVars, mergeVars, auxVars,
                   runVars>>

\* The request of ampel_cone_search raises RequestException and backoff
\* calls the function again.
ConeSearch_Retry ==
    /\ pc = "cones"
    /\ ci <= Limit
    /\ ~AlreadyScanned(cone_ids[ci])
    /\ tries < MaxTries
    /\ issued' = [issued EXCEPT ![cone_coords[ci]] = @ + 1]
    /\ tries' = tries + 1
    /\ run_failed' = TRUE
    /\ UNCHANGED <<archive, fast_query, t_min, cone_ids, cone_coords, scanned_pixels,
                   pc, max_cones, ci, all_ztf_names, oi, results, returned,
                   calls, skyVars, cacheVars, mergeVars, auxVars,
                   obj_requests, run_start, run_cache, run_error>>

\* Mutant of ConeSearch_GiveUp: the cone is marked scanned although its
\* search raised.
ConeSearch_GiveUp_Marks ==
    /\ pc = "cones"
    /\ ci <= Limit
    /\ ~AlreadyScanned(cone_ids[ci])
    /\ tries = MaxTries
    /\ issued' = [issued EXCEPT ![cone_coords[ci]] = @ + 1]
    /\ scanned_pixels' = Append(scanned_pixels, cone_ids[ci])
    /\ tries' = 0
    /\ pc' = "idle"
    /\ calls' = SetOutcome("error")
    /\ run_failed' = TRUE
    /\ run_error' = "cone"
    /\ UNCHANGED <<archive, fast_query, t_min, cone_ids, cone_coords,
                   max_cones, ci, all_ztf_names, oi, results, returned,
                   skyVars, cacheVars, mergeVars, auxVars,
                   obj_requests, run_start, run_cache>>

\* The request raises once more with the retry budget spent: backoff
\* re-raises and the exception leaves scan_cones.
ConeSearch_GiveUp ==
    /\ pc = "cones"
    /\ ci <= Limit
    /\ ~AlreadyScanned(cone_ids[ci])
    /\ tries = MaxTries
    /\ issued' = [issued EXCEPT ![cone_coords[ci]] = @ + 1]
    /\ tries' = 0
    /\ pc' = "idle"
    /\ calls' = SetOutcome("error")
    /\ run_failed' = TRUE
    /\ run_error' = "cone"
    /\ UNCHANGED <<archive, fast_query, t_min, cone_ids, cone_coords, scanned_pixels,
                   max_cones, ci, all_ztf_names, oi, results, returned,
                   skyVars, cacheVars, mergeVars, auxVars,
                   obj_requests, run_start, run_cache>>

\* Mutant of Cones_Done: the names are handed to ampel_object_search as
\* accumulated, without list(set(...)).
Cones_Done_NoDedup ==
    /\ pc = "cones"
    /\ ci > Limit
    /\ oi' = 1
    /\ results' = <<>>
    /\ tries' = 0
    /\ pc' = "objects"
    /\ UNCHANGED <<archive, fast_query, t_min, cone_ids, cone_coords,
                   scanned_pixels, max_cones, ci, all_ztf_names, issued,
                   returned, calls, skyVars, cacheVars, mergeVars, auxVars,
                   runVars>>

\* The cone loop is over: all_ztf_names = list(set(all_ztf_names)) and
\* ampel_object_search is entered.
Cones_Done ==
    /\ pc = "cones"
    /\ ci > Limit
    /\ all_ztf_names' = ListOfSet(Range(all_ztf_names))
    /\ oi' = 1
    /\ results' = <<>>
    /\ tries' = 0
    /\ pc' = "objects"
    /\ UNCHANGED <<archive, fast_query, t_min, cone_ids, cone_coords, scanned_pixels,
                   max_cones, ci, issued, returned, calls, skyVars, cacheVars,
                   mergeVars, auxVars,
                   runVars>>

\* One iteration of the name loop of ampel_object_search: the request
\* returns and the filtered alerts are appended to all_results.
ObjectSearch_Return ==
    /\ pc = "objects"
    /\ oi <= Len(all_ztf_names)
    /\ results' = Append(results, ObjectSearchOne(all_ztf_names[oi]))
    /\ oi' = oi + 1
    /\ obj_requests' = [obj_requests EXCEPT ![all_ztf_names[oi]] = @ + 1]
    /\ UNCHANGED <<archive, fast_query, t_min, cone_ids, cone_coords, scanned_pixels,
                   pc, max_cones, ci, all_ztf_names, tries, issued, returned,
                   calls, skyVars, cacheVars, mergeVars, auxVars,
                   run_failed, run_start, run_cache, run_error>>

\* A request of the name loop raises RequestException: backoff calls
\* ampel_object_search again, which starts over with all_results = [].
ObjectSearch_Retry ==
    /\ pc = "objects"
    /\ oi <= Len(all_ztf_names)
    /\ tries < MaxTries
    /\ tries' = tries + 1
    /\ oi' = 1
    /\ results' = <<>>
    /\ obj_requests' = [obj_requests EXCEPT ![all_ztf_names[oi]] = @ + 1]
    /\ run_failed' = TRUE
    /\ UNCHANGED <<archive, fast_query, t_min, cone_ids, cone_coords, scanned_pixels,
                   pc, max_cones, ci, all_ztf_names, issued, returned, calls,
                   skyVars, cacheVars, mergeVars, auxVars,
                   run_start, run_cache, run_error>>

\* Mutant of ObjectSearch_GiveUp: the results gathered before the failure
\* are put into the cache on the way out.
ObjectSearch_GiveUp_Caches ==
    /\ pc = "objects"
    /\ oi <= Len(all_ztf_names)
    /\ tries = MaxTries
    /\ tries' = 0
    /\ pc' = "idle"
    /\ calls' = SetOutcome("error")
    /\ obj_requests' = [obj_requests EXCEPT ![all_ztf_names[oi]] = @ + 1]
    /\ cache' = CacheLoop(cache, results)
    /\ upserts' = upserts \o Flatten(results)
    /\ run_failed' = TRUE
    /\ run_error' = "object"
    /\ UNCHANGED <<archive, fast_query, t_min, cone_ids, cone_coords,
                   scanned_pixels, max_cones, ci, all_ztf_names, oi, results,
                   issued, returned, skyVars, mergeVars, auxVars, run_start,
                   run_cache>>

\* A request raises with the retry budget spent: the exception leaves
\* scan_cones before the cache loop.
ObjectSearch_GiveUp ==
    /\ pc = "objects"
    /\ oi <= Len(all_ztf_names)
    /\ tries = MaxTries
    /\ tries' = 0
    /\ pc' = "idle"
    /\ calls' = SetOutcome("error")
    /\ obj_requests' = [obj_requests EXCEPT ![all_ztf_names[oi]] = @ + 1]
    /\ run_failed' = TRUE
    /\ run_error' = "object"
    /\ UNCHANGED <<archive, fast_query, t_min, cone_ids, cone_coords, scanned_pixels,
                   max_cones, ci, all_ztf_names, oi, results, issued, returned,
                   skyVars, cacheVars, mergeVars, auxVars,
                   run_start, run_cache>>

\* Mutant of ObjectSearch_Done: all_results is returned before the name
\* loop has gone through every name.
ObjectSearch_Done_Early ==
    /\ pc = "objects"
    /\ pc' = "cache"
    /\ tries' = 0
    /\ UNCHANGED <<archive, fast_query, t_min, cone_ids, cone_coords,
                   scanned_pixels, max_cones, ci, all_ztf_names, oi, results,
                   issued, returned, calls, skyVars, cacheVars, mergeVars,
                   auxVars, runVars>>

\* ampel_object_search returns all_results.
ObjectSearch_Done ==
    /\ pc = "objects"
    /\ oi > Len(all_ztf_names)
    /\ pc' = "cache"
    /\ tries' = 0
    /\ UNCHANGED <<archive, fast_query, t_min, cone_ids, cone_coords, scanned_pixels,
                   max_cones, ci, all_ztf_names, oi, results, issued, returned,
                   calls, skyVars, cacheVars, mergeVars, auxVars,
                   runVars>>

\* The cache loop of scan_cones over the results.
Cache_Update ==
    /\ pc = "cache"
    /\ cache' = CacheLoop(cache, results)
    /\ upserts' = upserts \o Flatten(results)
    /\ pc' = "summary"
    /\ UNCHANGED <<archive, fast_query, t_min, cone_ids, cone_coords, scanned_pixels,
                   max_cones, ci, all_ztf_names, oi, results, tries, issued,
                   returned, calls, skyVars, mergeVars, auxVars,
                   runVars>>

\* self.create_candidate_summary() and the return of scan_cones.
Create_Candidate_Summary ==
    /\ pc = "summary"
    /\ pc' = "idle"
    /\ tries' = 0
    /\ calls' = SetOutcome("ok")
    /\ UNCHANGED <<archive, fast_query, t_min, cone_ids, cone_coords,
                   scanned_pixels, max_cones, ci, all_ztf_names, oi, results,
                   issued, returned, skyVars, cacheVars, mergeVars, auxVars,
                   runVars>>

\* create_candidate_summary calls reassemble_alert for every cached record,
\* which calls ampel_get_cutouts: its request raises RequestException and
\* backoff calls it again.
Cutouts_Retry ==
    /\ pc = "summary"
    /\ DOMAIN cache # {}
    /\ tries < MaxTries
    /\ tries' = tries + 1
    /\ run_failed' = TRUE
    /\ UNCHANGED <<archive, fast_query, t_min, cone_ids, cone_coords,
                   scanned_pixels, pc, max_cones, ci, all_ztf_names, oi,
                   results, issued, returned, calls, skyVars, cacheVars,
                   mergeVars, auxVars, obj_requests, run_start, run_cache,
                   run_error>>

\* The request of ampel_get_cutouts raises with the retry budget spent: the
\* exception leaves create_candidate_summary and scan_cones.
Cutouts_GiveUp ==
    /\ pc = "summary"
    /\ DOMAIN cache # {}
    /\ tries = MaxTries
    /\ tries' = 0
    /\ pc' = "idle"
    /\ calls' = SetOutcome("error")
    /\ run_failed' = TRUE
    /\ run_error' = "cutouts"
    /\ UNCHANGED <<archive, fast_query, t_min, cone_ids, cone_coords,
                   scanned_pixels, max_cones, ci, all_ztf_names, oi, results,
                   issued, returned, skyVars, cacheVars, mergeVars, auxVars,
                   obj_requests, run_start, run_cache>>

ScanNext ==
    \/ ScanCones_Call
    \/ Cone_Skip
    \/ ConeSearch_Return
    \/ ConeSearch_Retry
    \/ ConeSearch_GiveUp
    \/ Cones_Done
    \/ ObjectSearch_Return
    \/ ObjectSearch_Retry
    \/ ObjectSearch_GiveUp
    \/ ObjectSearch_Done
    \/ Cache_Update
    \/ Create_Candidate_Summary
    \/ Cutouts_Retry
    \/ Cutouts_GiveUp

ScanSpec == ScanInit /\ [][ScanNext]_vars

\* Two scan_cones(max_cones=K/2) calls have completed, one after the other,
\* and every cone-search request sent has returned.
TwoHalfScansDone ==
    /\ pc = "idle"
    /\ Len(calls) = 2
    /\ \A n \in 1..2 : calls[n] = [max_cones |-> Len(cone_ids) \div 2,
                                     outcome |-> "ok"]
    /\ \A c \in ConeUniverse : issued[c] = returned[c]

\* C1 (as claimed): after two successive scan_cones(max_cones=K/2) calls
\* whose archive calls all succeed, every one of the K cones has had exactly
\* one cone search.  Both calls walk the same first K/2 cones, so the cones
\* beyond them are never searched.
C1_TwoHalfScansSearchEveryCone ==
    TwoHalfScansDone =>
        \A k \in DOMAIN cone_ids : issued[cone_coords[k]] = 1

\* C1 (amended): after two successive scan_cones(max_cones=K/2) calls whose
\* archive calls all succeed, each of the first K/2 cones of the cone list
\* has had exactly one cone search (none twice: the second call skips them
\* all), and the remaining cones have had none.
C1_TwoHalfScansSearchFirstHalfOnce ==
    TwoHalfScansDone =>
        \A k \in DOMAIN cone_ids :
            issued[cone_coords[k]] =
                IF k <= Len(cone_ids) \div 2 THEN 1 ELSE 0

\* C1 witness: four cones, two completed calls with max_cones = 2.
C1_Witness ==
    /\ TwoHalfScansDone
    /\ Len(cone_ids) = 4
    /\ scanned_pixels = SubSeq(cone_ids, 1, 2)
    /\ issued[cone_ids[1]] = 1 /\ issued[cone_ids[2]] = 1

IsPrefix(s, t) == Len(s) <= Len(t) /\ SubSeq(t, 1, Len(s)) = s

\* C3: in every step of every scan_cones call, failed ones included,
\* scanned_pixels only grows (what is marked stays marked), a cone is
\* appended to it only in the step in which its cone search returns, and a
\* cone-search request is sent only for a cone that is not marked.
C3_ScannedOnlyGrows ==
    [][/\ IsPrefix(scanned_pixels, scanned_pixels')
       /\ scanned_pixels' # scanned_pixels =>
             \E c \in ConeUniverse :
                 /\ scanned_pixels' = Append(scanned_pixels, c)
                 /\ returned'[c] = returned[c] + 1
       /\ \A c \in ConeUniverse :
             issued'[c] # issued[c] => c \notin Range(scanned_pixels)]_vars

\* C3 witness: a first call ended in an error after marking a cone, a
\* second call completed, a request had failed, and every marked cone has
\* had exactly one returned search.
C3_Witness ==
    /\ Len(calls) = 2
    /\ calls[1].outcome = "error"
    /\ calls[2].outcome = "ok"
    /\ Len(scanned_pixels) >= 2
    /\ \E c \in ConeUniverse : issued[c] > returned[c]
    /\ \A c \in Range(scanned_pixels) : returned[c] = 1

-----------------------------------------------------------------------------
(* Claims about the first-pass filter and the cone search                  *)

NonPositive(r) == r.candidate.isdiffpos \notin {"t", "1"}

\* C11: filter_f_no_prv rejects every record whose current detection is not
\* positive, wherever it lies (inside the credible region too) and whatever
\* its jdstarthist; so every object id returned by a cone search, and every
\* id accumulated by scan_cones, has a positive alert in a searched cone.
C11_NonPositiveNeverPasses ==
    /\ \A a \in ArchiveAlerts : \A p \in DOMAIN data :
         \A j \in (t_min - 1)..(t_min + 1) :
            LET r == [a EXCEPT !.candidate.pos = p,
                               !.candidate.jdstarthist = j]
            IN NonPositive(r) => ~filter_f_no_prv(r)
    /\ \A c \in Range(cone_coords) :
         \A id \in Range(ampel_cone_search(c)) :
            \E r \in ConeSearchResponse(c) :
                r.objectId = id /\ ~NonPositive(r)
    /\ \A id \in Range(all_ztf_names) :
         \E c \in Range(scanned_pixels) :
            \E r \in ConeSearchResponse(ConeCentre(c)) :
                r.objectId = id /\ ~NonPositive(r)

\* C11 witness: the only alert of ZTFa is a negative detection inside the
\* credible region; every cone has been searched and ZTFa, unlike ZTFb, is
\* not among the names found.
C11_Witness ==
    /\ archive["ZTFa"] = <<Alert("ZTFa", A6neg, <<>>)>>
    /\ in_contour(A6neg.pos)
    /\ pc = "objects"
    /\ Range(scanned_pixels) = Range(cone_ids)
    /\ Len(cone_ids) = 4
    /\ Range(all_ztf_names) = {"ZTFb"}

-----------------------------------------------------------------------------
(* The archive client: the decorated request functions of AmpelWizard      *)
(*   get_avro_by_name, ampel_cone_search:                                  *)
(*       @sleep_and_retry @limits(...) @backoff.on_exception(...)          *)
(*   ampel_object_search, ampel_get_cutouts:                               *)
(*       @backoff.on_exception(...)   (the rate-limit decorators are       *)
(*       commented out)                                                    *)
(* Time is counted in seconds; a request is answered within the second.    *)

RATELIMIT_CALLS == 1
RATELIMIT_PERIOD == 2

MaxRetryTime == 2     \* stands for max_time=600 of backoff.on_exception
MaxClientCalls == 2   \* client calls in one behaviour
MaxClock == 2         \* seconds that may pass between calls

ClientOps == {"cone", "object", "avro", "cutouts"}

\* The functions that carry @sleep_and_retry and @limits.
RateLimited == {"cone", "avro"}

\* response.status_code of an answered request
Statuses == {200, 400, 503}

ClientInit ==
    /\ SkyIdle
    /\ MoreIdle
    /\ MergeIdle
    /\ ScanIdle
    /\ FilterIdle
    /\ ConstructIdle
    /\ cache = EmptyDict
    /\ upserts = <<>>
    /\ now = 0
    /\ op = "none"
    /\ cstate = "idle"
    /\ started = 0
    /\ limiter = [f \in RateLimited |-> [last_reset |-> 0, num_calls |-> 0]]
    /\ last_status = 0
    /\ ncalls = 0
    /\ sent = <<>>

\* A client function is called.
Client_Call ==
    \E o \in ClientOps :
        /\ cstate = "idle"
        /\ ncalls < MaxClientCalls
        /\ ncalls' = ncalls + 1
        /\ op' = o
        /\ cstate' = IF o \in RateLimited THEN "limits" ELSE "backoff"
        /\ started' = now
        /\ last_status' = 0
        /\ UNCHANGED <<now, limiter, sent, skyVars, cacheVars, mergeVars,
                       scanVars, filterVars, constructVars,
                   moreVars>>

\* RateLimitDecorator.__period_remaining and the reset of the window
PeriodRemaining(l) == RATELIMIT_PERIOD - (now - l.last_reset)

Counted(l) ==
    IF PeriodRemaining(l) <= 0
    THEN [last_reset |-> now, num_calls |-> 1]
    ELSE [l EXCEPT !.num_calls = @ + 1]

\* The wrapper of @limits lets the call through to the backoff wrapper.
Limits_Pass ==
    /\ cstate = "limits"
    /\ Counted(limiter[op]).num_calls <= RATELIMIT_CALLS
    /\ limiter' = [limiter EXCEPT ![op] = Counted(@)]
    /\ cstate' = "backoff"
    /\ started' = now
    /\ UNCHANGED <<now, op, last_status, ncalls, sent, skyVars, cacheVars,
                   mergeVars, scanVars, filterVars, constructVars,
                   moreVars>>

\* The wrapper of @limits raises RateLimitException; sleep_and_retry sleeps
\* period_remaining and calls again.
Limits_Sleep ==
    /\ cstate = "limits"
    /\ Counted(limiter[op]).num_calls > RATELIMIT_CALLS
    /\ limiter' = [limiter EXCEPT ![op] = Counted(@)]
    /\ now' = now + PeriodRemaining(limiter[op])
    /\ UNCHANGED <<op, cstate, started, last_status, ncalls, sent, skyVars,
                   cacheVars, mergeVars, scanVars, filterVars, constructVars,
                   moreVars>>

Request == [op |-> op, at |-> now, admitted |-> last_status = 0 /\ op \in RateLimited]

\* requests.get answers 200: the function returns.
Request_OK ==
    /\ cstate = "backoff"
    /\ sent' = Append(sent, Request)
    /\ last_status' = 200
    /\ cstate' = "returned"
    /\ UNCHANGED <<now, op, started, limiter, ncalls, skyVars, cacheVars,
                   mergeVars, scanVars, filterVars, constructVars,
                   moreVars>>

\* requests.get answers a status other than 200 and the function raises
\* RequestException; max_time is not exceeded: backoff sleeps and
\* calls the function again.
Request_Retry ==
    \E status \in Statuses \ {200} :
      \E wait \in 1..2 :
        /\ cstate = "backoff"
        /\ now - started < MaxRetryTime
        /\ wait <= MaxRetryTime - (now - started)
        /\ sent' = Append(sent, Request)
        /\ last_status' = status
        /\ now' = now + wait
        /\ UNCHANGED <<op, cstate, started, limiter, ncalls, skyVars,
                       cacheVars, mergeVars, scanVars, filterVars, constructVars,
                   moreVars>>

\* Mutant of Request_GiveUp: the exception is re-raised whatever time has
\* elapsed.
Request_GiveUp_Early ==
    \E status \in Statuses \ {200} :
        /\ cstate = "backoff"
        /\ sent' = Append(sent, Request)
        /\ last_status' = status
        /\ cstate' = "raised"
        /\ UNCHANGED <<now, op, started, limiter, ncalls, skyVars, cacheVars,
                       mergeVars, scanVars, filterVars, constructVars,
                   moreVars>>

\* The function raises RequestException with max_time exceeded: backoff
\* re-raises it to the caller.
Request_GiveUp ==
    \E status \in Statuses \ {200} :
        /\ cstate = "backoff"
        /\ now - started >= MaxRetryTime
        /\ sent' = Append(sent, Request)
        /\ last_status' = status
        /\ cstate' = "raised"
        /\ UNCHANGED <<now, op, started, limiter, ncalls, skyVars, cacheVars,
                       mergeVars, scanVars, filterVars, constructVars,
                   moreVars>>

\* The caller goes on after the return or the exception.
Client_Done ==
    /\ cstate \in {"returned", "raised"}
    /\ cstate' = "idle"
    /\ op' = "none"
    /\ UNCHANGED <<now, started, limiter, last_status, ncalls, sent, skyVars,
                   cacheVars, mergeVars, scanVars, filterVars, constructVars,
                   moreVars>>

\* Time passes between two client calls.
Client_Tick ==
    /\ cstate = "idle"
    /\ now < MaxClock
    /\ now' = now + 1
    /\ UNCHANGED <<op, cstate, started, limiter, last_status, ncalls, sent,
                   skyVars, cacheVars, mergeVars, scanVars, filterVars, constructVars,
                   moreVars>>

ClientStep ==
    \/ Limits_Pass
    \/ Limits_Sleep
    \/ Request_OK
    \/ Request_Retry
    \/ Request_GiveUp
    \/ Client_Done

ClientNext ==
    \/ Client_Call
    \/ Client_Tick
    \/ ClientStep

ClientSpec == ClientInit /\ [][ClientNext]_vars

\* The interpreter keeps running a call that has begun.
ClientFairSpec == ClientSpec /\ WF_vars(ClientStep)

C13_ClientErrorNotRetried ==
    [][(cstate = "backoff" /\ last_status = 400) => sent' = sent]_vars

-----------------------------------------------------------------------------
(* Claims about a scan_cones call that fails                               *)

LastCallFailed ==
    /\ pc = "idle"
    /\ calls # <<>>
    /\ calls[Len(calls)].outcome = "error"

\* C15 (as claimed): when an archive call inside scan_cones has failed for
\* good, the cache is exactly as it was before the call and every cone
\* whose search completed is still marked scanned.  ampel_get_cutouts is
\* called from create_candidate_summary, after the cache loop: when it is
\* the call that fails, the cache already holds the upserts of the run.
C15_FailedScanLeavesCacheUntouched ==
    LastCallFailed =>
        /\ cache = run_cache
        /\ \A c \in ConeUniverse : returned[c] > 0 => AlreadyScanned(c)

\* C15 (amended): when a cone search or an object search inside scan_cones
\* has failed for good, the cache is exactly as it was before the call;
\* when the cutout retrieval of the report has, the cache holds the upserts
\* of the run on top of what it held before.  In both cases every cone
\* whose search completed is still marked scanned, and no cone search is
\* ever issued for a marked cone, in this call or a later one.
C15_FailedScanKeepsProgress ==
    /\ [](LastCallFailed =>
            /\ run_error \in {"cone", "object", "cutouts"}
            /\ run_error \in {"cone", "object"} => cache = run_cache
            /\ run_error = "cutouts" => cache = CacheLoop(run_cache, results)
            /\ \A c \in ConeUniverse : returned[c] > 0 => AlreadyScanned(c))
    /\ [][\A c \in ConeUniverse :
            issued'[c] # issued[c] => ~AlreadyScanned(c)]_vars

\* C15 witness: a first call failed in a cone search after one cone had
\* been searched; a second call, which skipped that cone, failed in the
\* cutout retrieval after it had changed the cache.
C15_Witness ==
    /\ LastCallFailed
    /\ Len(calls) = 2
    /\ calls[1].outcome = "error"
    /\ run_start >= 1
    /\ run_error = "cutouts"
    /\ cache # run_cache
    /\ \A c \in Range(scanned_pixels) : returned[c] = 1

-----------------------------------------------------------------------------
(* Claims about the phases of one scan_cones call                          *)

\* The cones of the slice list(self.cone_ids)[:max_cones] are all marked.
ConePhaseOver ==
    /\ ci > Limit
    /\ \A k \in 1..Limit : AlreadyScanned(cone_ids[k])

\* Every name has had its object search returned.
ObjectPhaseOver ==
    /\ oi > Len(all_ztf_names)
    /\ Len(results) = Len(all_ztf_names)

\* C19: within one scan_cones call the phases follow one another: an object
\* search request is sent only when the last cone search of the call has
\* completed, and no cone search request after it; the cache is written
\* only when every object search has returned; the report is reached only
\* with all the upserts of the call done.
C19_PhasesInOrder ==
    [][/\ (pc = "objects" /\ obj_requests' # obj_requests) => ConePhaseOver
       /\ issued' # issued =>
             /\ results = <<>>
             /\ \A id \in ScanObjectIds : obj_requests[id] = 0
       /\ (cache' # cache \/ upserts' # upserts) =>
             /\ ConePhaseOver
             /\ ObjectPhaseOver
       /\ pc' = "summary" =>
             /\ ConePhaseOver'
             /\ ObjectPhaseOver'
             /\ cache' = CacheLoop(run_cache, results)]_vars

\* C19 witness: a call has gone through all four phases: four cones
\* searched, both objects resolved and cached, the report made.
C19_Witness ==
    /\ pc = "idle"
    /\ calls = <<[max_cones |-> 4, outcome |-> "ok"]>>
    /\ Len(scanned_pixels) = 4
    /\ \A id \in ScanObjectIds : obj_requests[id] >= 1
    /\ DOMAIN cache = ScanObjectIds

\* The object ids that passed the first-pass filter in a cone newly scanned
\* by the call under way (or just ended).
FoundInNewCones ==
    UNION {Range(ampel_cone_search(ConeCentre(scanned_pixels[k]))) :
              k \in (run_start + 1)..Len(scanned_pixels)}

\* C20: in a scan_cones call whose archive calls all succeed, each object
\* id found in at least one newly scanned cone gets exactly one object
\* search request, also when several overlapping cones found it, and no
\* other id gets one.
C20_OneObjectSearchPerId ==
    (pc \in {"cache", "summary", "idle"} /\ calls # <<>> /\ ~run_failed) =>
        \A id \in ScanObjectIds :
            obj_requests[id] = IF id \in FoundInNewCones THEN 1 ELSE 0

\* C20 witness: ZTFb lies in the cones centred on 1 and on 2, both searched
\* by this call, and has had one object search.
C20_Witness ==
    /\ pc = "idle"
    /\ calls # <<>>
    /\ ~run_failed
    /\ {1, 2} \subseteq {scanned_pixels[k] :
                            k \in (run_start + 1)..Len(scanned_pixels)}
    /\ "ZTFb" \in Range(ampel_cone_search(1))
    /\ "ZTFb" \in Range(ampel_cone_search(2))
    /\ obj_requests["ZTFb"] = 1

-----------------------------------------------------------------------------
(* The filters applied to records that may lack keys                       *)
(* A record is a function from its keys; res["k"] on a record without the  *)
(* key k raises KeyError.                                                  *)

Has(d, key) == key \in DOMAIN d

Drop(d, key) == [k \in DOMAIN d \ {key} |-> d[k]]

\* filter_f_no_prv called on res: the keys are read in the order of the
\* checks, and a check that rejects returns before the later keys are read.
filter_f_no_prv_call(res) ==
    IF ~Has(res, "candidate") THEN "KeyError"
    ELSE IF ~Has(res.candidate, "isdiffpos") THEN "KeyError"
    ELSE IF res.candidate.isdiffpos \notin {"t", "1"} THEN "reject"
    ELSE IF ~Has(res.candidate, "jdstarthist") THEN "KeyError"
    ELSE IF res.candidate.jdstarthist < t_min THEN "reject"
    ELSE IF ~Has(res.candidate, "pos") THEN "KeyError"
    ELSE IF ~in_contour(res.candidate.pos) THEN "reject"
    ELSE "pass"

fast_filter_f_no_prv_call(res) ==
    IF ~Has(res, "candidate") THEN "KeyError"
    ELSE IF ~Has(res.candidate, "isdiffpos") THEN "KeyError"
    ELSE IF res.candidate.isdiffpos \notin {"t", "1"} THEN "reject"
    ELSE IF ~Has(res.candidate, "jdstarthist") THEN "KeyError"
    ELSE IF res.candidate.jdstarthist < t_min THEN "reject"
    ELSE IF ~Has(res.candidate, "jdendhist") THEN "KeyError"
    ELSE IF res.candidate.jdendhist - res.candidate.jdstarthist < MinSpan
         THEN "reject"
    ELSE "pass"

filter_f_history_call(res) ==
    IF ~Has(res, "candidate") THEN "KeyError"
    ELSE IF ~Has(res.candidate, "jdstarthist") THEN "KeyError"
    ELSE IF res.candidate.jdstarthist < t_min THEN "reject"
    ELSE IF ~Has(res.candidate, "jdendhist") THEN "KeyError"
    ELSE IF res.candidate.jdendhist - res.candidate.jdstarthist < MinSpan
         THEN "reject"
    ELSE IF ~Has(res, "prv_candidates") THEN "KeyError"
    ELSE IF \E k \in DOMAIN res.prv_candidates :
                ~Has(res.prv_candidates[k], "isdiffpos")
                    \/ ~Has(res.prv_candidates[k], "jd")
         THEN "KeyError"
    ELSE LET old_detections ==
                 SelectSeq(res.prv_candidates,
                           LAMBDA x : /\ x.isdiffpos # "None"
                                      /\ x.jd > t_min
                                      /\ x.jd < DefaultTMaxJd)
             pos_detections ==
                 SelectSeq(old_detections,
                           LAMBDA x : x.isdiffpos \in {"t", "1"})
         IN IF Len(pos_detections) < 1 THEN "reject" ELSE "pass"

\* Well-formed records: positive or negative, young or old, inside or
\* outside the contour, with or without a previous detection.
WellFormedRecords ==
    {Alert("ZTFa", Det(5, 105, j, 5, p, pos, 5), prv) :
        j \in {1, 3}, p \in {"t", "f"}, pos \in {1, 4},
        prv \in {<<>>, <<A4>>}}

\* The same records with one expected key missing.
MalformedRecords ==
    UNION {{[r EXCEPT !.candidate = Drop(@, "jdstarthist")],
            [r EXCEPT !.candidate = Drop(@, "isdiffpos")],
            [r EXCEPT !.candidate = Drop(@, "jdendhist")],
            Drop(r, "prv_candidates")} : r \in WellFormedRecords}

\* The t_max arguments of the scan_cones call that applies the filters:
\* None, which stands for self.default_t_max, or an earlier end of the
\* search window (jd 3, before the detections at jd 4).
ScanTMaxArgs == {DefaultTMaxJd, 3}

FilterInit ==
    /\ MergeIdle
    /\ MoreIdle
    /\ ClientIdle
    /\ ConstructIdle
    /\ ScannerOff
    /\ t_min = TMinJd
    /\ data = <<50, 30, 15, 5>>
    /\ prob_threshold = 90
    /\ pixel_threshold = find_pixel_threshold(data, prob_threshold)
    /\ map_pix = unpack_skymap(data, prob_threshold)
    /\ built = "ready"
    /\ cache = EmptyDict
    /\ upserts = <<>>
    /\ rec \in WellFormedRecords \cup MalformedRecords
    /\ t_max \in ScanTMaxArgs
    /\ fname = "none"
    /\ verdict = "none"

Apply_filter_f_no_prv ==
    /\ fname = "none"
    /\ fname' = "filter_f_no_prv"
    /\ verdict' = filter_f_no_prv_call(rec)
    /\ UNCHANGED <<rec, t_max, skyVars, cacheVars, mergeVars, scanVars,
                   clientVars, constructVars, moreVars>>

Apply_fast_filter_f_no_prv ==
    /\ fname = "none"
    /\ fname' = "fast_filter_f_no_prv"
    /\ verdict' = fast_filter_f_no_prv_call(rec)
    /\ UNCHANGED <<rec, t_max, skyVars, cacheVars, mergeVars, scanVars,
                   clientVars, constructVars, moreVars>>

Apply_filter_f_history ==
    /\ fname = "none"
    /\ fname' = "filter_f_history"
    /\ verdict' = filter_f_history_call(rec)
    /\ UNCHANGED <<rec, t_max, skyVars, cacheVars, mergeVars, scanVars,
                   clientVars, constructVars, moreVars>>

FilterNext ==
    \/ Apply_filter_f_no_prv
    \/ Apply_fast_filter_f_no_prv
    \/ Apply_filter_f_history

FilterSpec == FilterInit /\ [][FilterNext]_vars

\* C16: a record that lacks an expected key always makes the filter raise;
\* no filter returns a pass or a reject for it.  The filters raise only
\* when they come to read the missing key: a check that rejects first
\* returns False without an error, and filter_f_no_prv and
\* fast_filter_f_no_prv never read prv_candidates.
C16_MalformedAlwaysRaises ==
    (rec \in MalformedRecords /\ fname # "none") => verdict = "KeyError"

-----------------------------------------------------------------------------
(* GravWaveScanner.__init__ and get_superevent, step by step               *)

MaxVoevents == 2     \* notices an event has upstream

NoticeKinds == {"Preliminary", "Update", "Retraction"}

\* ligo_client.voevents(name).json()["voevents"]: the notices of the event,
\* oldest first, at least one.
VoeventLists == UNION {[1..n -> NoticeKinds] : n \in 1..MaxVoevents}

ConstructInit ==
    /\ SkyIdle
    /\ MoreIdle
    /\ MergeIdle
    /\ ScanIdle
    /\ FilterIdle
    /\ ClientIdle
    /\ cache = EmptyDict
    /\ upserts = <<>>
    /\ gw_file \in {"None", "file"}
    /\ rev \in 0..(MaxVoevents + 1)
    /\ voevents \in VoeventLists
    /\ cpos = "start"
    /\ done = {}

\* rev = len(voevents) when rev is None
SelectedRev == IF rev = 0 THEN Len(voevents) ELSE rev

ConstructUnchanged ==
    UNCHANGED <<gw_file, rev, voevents, skyVars, cacheVars, mergeVars,
                scanVars, filterVars, clientVars, moreVars>>

\* Mutant of GetSuperevent_Select: the filename of the notice is not tested.
GetSuperevent_Select_Unchecked ==
    /\ cpos = "start"
    /\ gw_file = "None"
    /\ done' = done \cup {"voevents_listed"}
    /\ cpos' = IF SelectedRev > Len(voevents) THEN "TypeError"
               ELSE "get_skymap"
    /\ ConstructUnchanged

\* get_superevent up to the retraction test: the notices are listed, the
\* revision is selected (raise of a string when it does not exist) and
\* RetractionError is raised if its filename holds "Retraction".
GetSuperevent_Select ==
    /\ cpos = "start"
    /\ gw_file = "None"
    /\ done' = done \cup {"voevents_listed"}
    /\ cpos' = IF SelectedRev > Len(voevents) THEN "TypeError"
               ELSE IF voevents[SelectedRev] = "Retraction"
                    THEN "RetractionError"
               ELSE "get_skymap"
    /\ ConstructUnchanged

\* The rest of get_superevent: the notice is fetched and parsed, the sky
\* map it names is downloaded and saved.
GetSuperevent_Download ==
    /\ cpos = "get_skymap"
    /\ done' = done \cup {"voevent_fetched", "skymap_downloaded"}
    /\ cpos' = "read_map"
    /\ ConstructUnchanged

\* gw_file is given: wget.download(gw_file, self.gw_path)
Wget_Download ==
    /\ cpos = "start"
    /\ gw_file = "file"
    /\ done' = done \cup {"skymap_downloaded"}
    /\ cpos' = "read_map"
    /\ ConstructUnchanged

\* read_map, find_pixel_threshold and unpack_skymap
Read_Map ==
    /\ cpos = "read_map"
    /\ done' = done \cup {"map_read"}
    /\ cpos' = "wizard_init"
    /\ ConstructUnchanged

\* AmpelWizard.__init__: find_cone_coords computes the cones
AmpelWizard_init ==
    /\ cpos = "wizard_init"
    /\ done' = done \cup {"cones_computed"}
    /\ cpos' = "ready"
    /\ ConstructUnchanged

\* scan_cones on the constructed scanner sends archive requests
Instance_ScanCones ==
    /\ cpos = "ready"
    /\ done' = done \cup {"archive_request"}
    /\ cpos' = "scanned"
    /\ ConstructUnchanged

ConstructNext ==
    \/ GetSuperevent_Select
    \/ GetSuperevent_Download
    \/ Wget_Download
    \/ Read_Map
    \/ AmpelWizard_init
    \/ Instance_ScanCones

ConstructSpec == ConstructInit /\ [][ConstructNext]_vars

\* The event was retracted upstream: its latest notice is a retraction.
Retracted == voevents[Len(voevents)] = "Retraction"

NothingBeyondListing ==
    /\ done \subseteq {"voevents_listed"}
    /\ cpos \in {"start", "RetractionError"}

\* C17 (as claimed): if the event was retracted, construction raises
\* RetractionError before the sky map is downloaded, the cones are computed
\* or an archive request is sent, and no instance reaches scan_cones.  No
\* retraction test is made when gw_file is given, and with rev given the
\* test is made on that revision, not on the latest notice.
C17_RetractedNeverConstructed ==
    Retracted => NothingBeyondListing

\* C17 (amended): if the scanner is constructed by event name (gw_file is
\* None) and the notice of the selected revision, the latest one when rev
\* is None, is a retraction, construction raises RetractionError before the
\* sky map is downloaded, the cones are computed or an archive request is
\* sent, and no instance reaches scan_cones.
C17_RetractionNoticeStopsConstruction ==
    (/\ gw_file = "None"
     /\ SelectedRev <= Len(voevents)
     /\ voevents[SelectedRev] = "Retraction") => NothingBeyondListing

\* C17 witness: construction by name, rev None, of an event whose second
\* and latest notice is a retraction, has raised RetractionError.
C17_Witness ==
    /\ gw_file = "None"
    /\ rev = 0
    /\ voevents = <<"Preliminary", "Retraction">>
    /\ cpos = "RetractionError"
    /\ done = {"voevents_listed"}

-----------------------------------------------------------------------------
(* BaseScanner.ampel_timerange_search between the scans                    *)

\* The t_min arguments handed to ampel_timerange_search
TimerangeTMins == {2, 4}

\* The alerts answering ampel_api_timerange between t_lo and
\* self.default_t_max, with_history=false.
TimerangeResponse(t_lo) ==
    {[a EXCEPT !.prv_candidates = <<>>] :
        a \in {b \in ArchiveAlerts :
                  /\ b.candidate.jd >= t_lo
                  /\ b.candidate.jd <= DefaultTMaxJd}}

\* self.t_min = t_min, then the archive query; the loop fills
\* ztf_names_unfiltered with every objectId and ztf_names with those passing
\* the filters, and ztf_names_unfiltered, deduplicated, is returned.
AmpelTimerangeSearch ==
    \E t \in TimerangeTMins :
        /\ pc = "idle"
        /\ t_min' = t
        /\ LET query_res == TimerangeResponse(t)
               ztf_names_unfiltered == {res.objectId : res \in query_res}
           IN tr_result' = ListOfSet(ztf_names_unfiltered)
        /\ UNCHANGED <<archive, fast_query, cone_ids, cone_coords,
                       scanned_pixels, pc, max_cones, ci, all_ztf_names, oi,
                       results, tries, issued, returned, calls, skyVars,
                       cacheVars, mergeVars, filterVars, clientVars,
                       constructVars, classVars, reportVars, coordVars,
                       gcnVars, obsVars, runVars>>

TimerangeInit ==
    /\ ScanInit
    /\ cone_ids = <<1, 2>>

TimerangeNext == ScanNext \/ AmpelTimerangeSearch

TimerangeSpec == TimerangeInit /\ [][TimerangeNext]_vars

\* C18: the filters are pure: for every record, filter_f_no_prv and
\* filter_f_history give the same result before and after every scanner
\* operation, successful or failed.  ampel_timerange_search assigns
\* self.t_min, which both filters read.
C18_FiltersUnaffectedByOperations ==
    [][\A r \in WellFormedRecords :
          /\ filter_f_no_prv(r)' = filter_f_no_prv(r)
          /\ filter_f_history(r)' = filter_f_history(r)]_vars

-----------------------------------------------------------------------------
(* Claims about ampel_object_search                                        *)

\* C21: with fast_query the alerts the archive returns for a name are not
\* merged and not put through the history filter: exactly those that pass
\* fast_filter_f_no_prv and the ampel filter are retained, as returned.
\* Without fast_query they are merged into one record per object, retained
\* iff it passes filter_f_history.
C21_FastQuerySkipsMergeAndHistory ==
    \A k \in DOMAIN results :
        LET returned_alerts == archive[all_ztf_names[k]]
        IN IF fast_query
           THEN /\ \A j \in DOMAIN results[k] :
                     /\ results[k][j] \in Range(returned_alerts)
                     /\ fast_filter_f_no_prv(results[k][j])
                     /\ filter_ampel(results[k][j])
                /\ Len(results[k]) =
                     Cardinality({j \in DOMAIN returned_alerts :
                         /\ fast_filter_f_no_prv(returned_alerts[j])
                         /\ filter_ampel(returned_alerts[j])})
           ELSE /\ Len(results[k]) <= 1
                /\ \A j \in DOMAIN results[k] :
                     /\ results[k][j].objectId = all_ztf_names[k]
                     /\ filter_f_history(results[k][j])
                     /\ DetsOf(results[k][j]) =
                          UNION {DetsOf(a) : a \in Range(returned_alerts)}
                /\ results[k] = <<>> =>
                     \A m \in Range(merge_alerts(returned_alerts)) :
                         ~filter_f_history(m)

\* C21 witness: with fast_query both alerts of ZTFa are retained as the
\* archive returned them, unmerged, the first one without any previous
\* detection that the history filter would ask for.
C21_Witness ==
    /\ fast_query
    /\ pc = "cache"
    /\ archive["ZTFa"] = <<Alert("ZTFa", A4, <<>>), Alert("ZTFa", A5, <<A4>>)>>
    /\ \E k \in DOMAIN results :
          /\ all_ztf_names[k] = "ZTFa"
          /\ results[k] = archive["ZTFa"]
          /\ ~filter_f_history(results[k][1])

-----------------------------------------------------------------------------
(* Claims about the history filter                                         *)

\* The previous detections of record r with a positive isdiffpos and a jd
\* strictly inside the window (lo, hi).
PositiveInWindow(r, lo, hi) ==
    {k \in DOMAIN r.prv_candidates :
        /\ r.prv_candidates[k].isdiffpos \in {"t", "1"}
        /\ r.prv_candidates[k].jd > lo
        /\ r.prv_candidates[k].jd < hi}

\* C22: filter_f_history retains a record iff its jdstarthist is not before
\* t_min, jdendhist - jdstarthist is at least 0.01 day, and at least one
\* previous detection with a positive isdiffpos has its jd inside the
\* window (t_min, t_max) of the scan; a record with no positive previous
\* detection inside that window is rejected.
C22_HistoryFilterUsesScanWindow ==
    (fname = "filter_f_history" /\ rec \in WellFormedRecords) =>
        (verdict = "pass" <=>
            /\ rec.candidate.jdstarthist >= t_min
            /\ rec.candidate.jdendhist - rec.candidate.jdstarthist >= MinSpan
            /\ PositiveInWindow(rec, t_min, t_max) # {})

-----------------------------------------------------------------------------
(* Claims about ampel_timerange_search                                     *)

\* C30: ampel_timerange_search returns, each exactly once, the object ids
\* of precisely the alerts of the time range that pass filter_f_no_prv and
\* filter_ampel; an id whose alerts all fail a filter is not returned.
\* (t_min is the argument of the search: the search has assigned it.)
C30_TimerangeReturnsFilteredIds ==
    [][(t_min' # t_min \/ tr_result' # tr_result) =>
          /\ Range(tr_result') =
                {res.objectId : res \in
                    {r \in TimerangeResponse(t_min)' :
                        filter_f_no_prv(r)' /\ filter_ampel(r)'}}
          /\ Cardinality(Range(tr_result')) = Len(tr_result')]_vars

-----------------------------------------------------------------------------
(* Claims about candidates across interrupted scans                        *)

LastCallSucceeded ==
    /\ pc = "idle"
    /\ calls # <<>>
    /\ calls[Len(calls)].outcome = "ok"

\* C29: no candidate is lost by an interrupted scan: once a scan_cones call
\* has succeeded, every object that passed the first-pass filters in a cone
\* marked scanned, in this call or an earlier failed one, has had its
\* history resolved, so that it is in the cache if it passes the filters of
\* the object search.
C29_NoCandidateLostByInterruptedScan ==
    LastCallSucceeded =>
        \A c \in Range(scanned_pixels) :
            \A ztf_name \in Range(ampel_cone_search(ConeCentre(c))) :
                ObjectSearchOne(ztf_name) # <<>> => ztf_name \in DOMAIN cache

-----------------------------------------------------------------------------
(* create_candidate_summary: the pdf report of the cache                   *)

ScannerClasses == {"AmpelWizard", "BaseScanner"}

ReportObjectIds == {"ZTFa", "ZTFb", "ZTFc"}

\* The caches the report is made of: any subset of the objects, one record
\* each.
ReportCaches ==
    {[o \in S |-> Alert(o, Det(2, 1, 1, 2, "t", 1, 5), <<>>)] :
        S \in SUBSET ReportObjectIds}

\* sorted(self.cache.items()): the names in increasing order
SortedCacheNames == ListOfSet(DOMAIN cache)

ReportInit ==
    /\ SkyIdle
    /\ MergeIdle
    /\ ScanIdle
    /\ FilterIdle
    /\ ClientIdle
    /\ ConstructIdle
    /\ TimerangeIdle
    /\ CoordIdle
    /\ GcnIdle
    /\ ObsIdle
    /\ scanner_class \in ScannerClasses
    /\ cache \in ReportCaches
    /\ upserts = <<>>
    /\ pages = <<>>
    /\ warned = {}
    /\ ri = 1
    /\ rpos = "loop"

ReportUnchanged ==
    UNCHANGED <<skyVars, cacheVars, mergeVars, scanVars, filterVars,
                clientVars, constructVars, timerangeVars, classVars,
                coordVars, gcnVars, obsVars>>

\* The figure of the candidate is drawn and pdf.savefig() adds its page.
Page_Saved ==
    /\ rpos = "loop"
    /\ ri <= Len(SortedCacheNames)
    /\ pages' = Append(pages, SortedCacheNames[ri])
    /\ ri' = ri + 1
    /\ UNCHANGED <<warned, rpos>>
    /\ ReportUnchanged

\* AmpelWizard: alert.display_alert raises TypeError; the except clause
\* prints the warning and the loop goes on without a page.
Page_Skipped ==
    /\ rpos = "loop"
    /\ ri <= Len(SortedCacheNames)
    /\ scanner_class = "AmpelWizard"
    /\ warned' = warned \cup {SortedCacheNames[ri]}
    /\ ri' = ri + 1
    /\ UNCHANGED <<pages, rpos>>
    /\ ReportUnchanged

\* BaseScanner: there is no try around lightcurve_from_alert; its TypeError
\* leaves create_candidate_summary.
Page_Raised ==
    /\ rpos = "loop"
    /\ ri <= Len(SortedCacheNames)
    /\ scanner_class = "BaseScanner"
    /\ rpos' = "TypeError"
    /\ UNCHANGED <<pages, warned, ri>>
    /\ ReportUnchanged

\* The cutouts of the candidate cannot be fetched (reassemble_alert,
\* add_cutouts): the RequestException leaves create_candidate_summary.
Page_CutoutsFailed ==
    /\ rpos = "loop"
    /\ ri <= Len(SortedCacheNames)
    /\ rpos' = "RequestException"
    /\ UNCHANGED <<pages, warned, ri>>
    /\ ReportUnchanged

\* The loop is over and the pdf is closed.
Summary_Done ==
    /\ rpos = "loop"
    /\ ri > Len(SortedCacheNames)
    /\ rpos' = "done"
    /\ UNCHANGED <<pages, warned, ri>>
    /\ ReportUnchanged

ReportNext ==
    \/ Page_Saved
    \/ Page_Skipped
    \/ Page_Raised
    \/ Page_CutoutsFailed
    \/ Summary_Done

ReportSpec == ReportInit /\ [][ReportNext]_vars

\* C23: the report has exactly one page per cached candidate: when
\* create_candidate_summary has completed, every object id of the cache has
\* its page, and no candidate was skipped.
C23_OnePagePerCachedCandidate ==
    rpos = "done" =>
        /\ Range(pages) = DOMAIN cache
        /\ Len(pages) = Cardinality(DOMAIN cache)

-----------------------------------------------------------------------------
(* The coordinates of the cones: extract_ra_dec, find_cone_coords and the  *)
(* cone loop of scan_cones, in AmpelWizard and in BaseScanner              *)

DegPerRad == 57      \* np.degrees / np.rad2deg: 180/pi degrees per radian

\* np.degrees(x), np.rad2deg(x)
Degrees(x) == x * DegPerRad

\* hp.pix2ang(nside, index, nest=True) as (ra, dec) in radians: the centre
\* of the pixel, dec = pi/2 - colat.
PixCentreRad(index) == [ra |-> index, dec |-> index - 2]

\* extract_ra_dec(nside, index): AmpelWizard returns the centre in radians,
\* BaseScanner converts it with np.rad2deg.
extract_ra_dec(class, index) ==
    IF class = "AmpelWizard"
    THEN PixCentreRad(index)
    ELSE [ra |-> Degrees(PixCentreRad(index).ra),
          dec |-> Degrees(PixCentreRad(index).dec)]

CoordInit ==
    /\ SkyIdle
    /\ MergeIdle
    /\ FilterIdle
    /\ ClientIdle
    /\ ConstructIdle
    /\ TimerangeIdle
    /\ ReportIdle
    /\ GcnIdle
    /\ ObsIdle
    /\ cache = EmptyDict
    /\ upserts = <<>>
    /\ scanner_class \in ScannerClasses
    /\ queries = <<>>
    /\ archive = <<>>
    /\ fast_query = FALSE
    /\ cone_ids = <<>>
    /\ cone_coords = <<>>
    /\ scanned_pixels = <<>>
    /\ pc = "construct"
    /\ max_cones = 0
    /\ ci = 0
    /\ all_ztf_names = <<>>
    /\ oi = 0
    /\ results = <<>>
    /\ tries = 0
    /\ issued = <<>>
    /\ returned = <<>>
    /\ calls = <<>>
    /\ t_min = TMinJd
    /\ obj_requests = <<>>
    /\ run_failed = FALSE
    /\ run_start = 0
    /\ run_cache = <<>>
    /\ run_error = "none"

CoordUnchanged ==
    UNCHANGED <<archive, fast_query, all_ztf_names, oi, results, tries,
                issued, returned, t_min, runVars, skyVars, cacheVars,
                mergeVars, filterVars, clientVars, constructVars,
                timerangeVars, classVars, reportVars, gcnVars, obsVars>>

\* find_cone_coords: the distinct cone ids, in the order of list(set(..)),
\* and for each of them, in that order, extract_ra_dec of the cone.
FindConeCoords ==
    \E ids \in ConeLists :
        /\ pc = "construct"
        /\ cone_ids' = ids
        /\ cone_coords' = [k \in DOMAIN ids |->
                               extract_ra_dec(scanner_class, ids[k])]
        /\ pc' = "idle"
        /\ UNCHANGED <<scanned_pixels, max_cones, ci, calls, queries>>
        /\ CoordUnchanged

\* scan_cones(max_cones=mc) is called.
CoordScan_Call ==
    \E mc \in MaxConesArgs :
        /\ pc = "idle"
        /\ Len(calls) < MaxCalls
        /\ max_cones' = mc
        /\ ci' = 1
        /\ pc' = "cones"
        /\ calls' = Append(calls, [max_cones |-> mc, outcome |-> "running"])
        /\ UNCHANGED <<cone_ids, cone_coords, scanned_pixels, queries>>
        /\ CoordUnchanged

\* One iteration of the cone loop for a cone that is not marked:
\* ra, dec = self.cone_coords[i], and ampel_cone_search is called with
\* np.degrees(ra), np.degrees(dec).
CoordCone_Search ==
    /\ pc = "cones"
    /\ ci <= Limit
    /\ ~AlreadyScanned(cone_ids[ci])
    /\ queries' = Append(queries, [cone_id |-> cone_ids[ci],
                                   ra |-> Degrees(cone_coords[ci].ra),
                                   dec |-> Degrees(cone_coords[ci].dec)])
    /\ scanned_pixels' = Append(scanned_pixels, cone_ids[ci])
    /\ ci' = ci + 1
    /\ UNCHANGED <<cone_ids, cone_coords, pc, max_cones, calls>>
    /\ CoordUnchanged

\* One iteration for a marked cone.
CoordCone_Skip ==
    /\ pc = "cones"
    /\ ci <= Limit
    /\ AlreadyScanned(cone_ids[ci])
    /\ ci' = ci + 1
    /\ UNCHANGED <<cone_ids, cone_coords, scanned_pixels, pc, max_cones,
                   calls, queries>>
    /\ CoordUnchanged

\* The cone loop is over; the rest of scan_cones leaves the coordinates
\* alone.
CoordCones_Done ==
    /\ pc = "cones"
    /\ ci > Limit
    /\ pc' = "idle"
    /\ calls' = SetOutcome("ok")
    /\ UNCHANGED <<cone_ids, cone_coords, scanned_pixels, max_cones, ci,
                   queries>>
    /\ CoordUnchanged

CoordNext ==
    \/ FindConeCoords
    \/ CoordScan_Call
    \/ CoordCone_Search
    \/ CoordCone_Skip
    \/ CoordCones_Done

CoordSpec == CoordInit /\ [][CoordNext]_vars

\* C24: for every cone searched, the (ra, dec) handed to ampel_cone_search
\* is the centre of that same cone, in degrees: cone_ids[i] goes with
\* cone_coords[i], and the centre is converted from radians to degrees
\* exactly once between extract_ra_dec and the archive query.
C24_ConeSearchedAtItsCentreInDegrees ==
    \A k \in DOMAIN queries :
        /\ queries[k].ra = Degrees(PixCentreRad(queries[k].cone_id).ra)
        /\ queries[k].dec = Degrees(PixCentreRad(queries[k].cone_id).dec)

-----------------------------------------------------------------------------
(* parse_nu_gcn: find_gcn_no and get_latest_gcn                            *)

MaxCirculars == 2    \* circulars in one answer of the server (bound)

\* The received dates of the circulars, ISO strings read as (day, hour).
ReceivedDates == [day : {1, 2}, hour : {0, 1}]

\* Time(i, format="isot").mjd, in hours
Mjd(received) == received.day * 24 + received.hour

\* A subject is known by which of the two words it contains.
Subjects == SUBSET {"neutrino", "high-energy"}

\* The answers of allCirculars: the k-th edge has circular number 100 + k,
\* whatever its date (the server's order is not the order of the dates).
CircularLists ==
    UNION {{[k \in 1..n |-> [cid |-> 100 + k, received |-> d[k],
                             subject |-> w[k]]] :
               d \in [1..n -> ReceivedDates], w \in [1..n -> Subjects]} :
           n \in 0..MaxCirculars}

EventNames == {"IC220405B", "IC200530A"}

Returned(v) == [kind |-> "value", cid |-> v]
ReturnedNone == [kind |-> "None", cid |-> 0]
Raised(e) == [kind |-> e, cid |-> 0]

\* np.argmin of a non-empty list: the first index of the smallest value
ArgMin(values) ==
    CHOOSE i \in DOMAIN values :
        /\ \A j \in DOMAIN values : values[i] <= values[j]
        /\ \A j \in 1..(i - 1) : values[j] > values[i]

\* circular_nr[np.argmin([... mjd ...])]; np.argmin of an empty list raises
\* ValueError.
EarliestOf(entries) ==
    IF entries = <<>> THEN Raised("ValueError")
    ELSE Returned(entries[ArgMin([k \in DOMAIN entries |->
                                      Mjd(entries[k].received)])].cid)

\* "neutrino" in subj and "high-energy" in subj
SubjectFilter(entry) ==
    "neutrino" \in entry.subject /\ "high-energy" \in entry.subject

find_gcn_no(name, known, edges) ==
    IF name = "IC220405B" THEN Returned(31839)
    ELSE IF name = "IC231004A" THEN Returned(34798)
    ELSE IF known THEN EarliestOf(SelectSeq(edges, SubjectFilter))
    ELSE ReturnedNone

get_latest_gcn(edges) == EarliestOf(edges)

GcnInit ==
    /\ SkyIdle
    /\ MergeIdle
    /\ ScanIdle
    /\ FilterIdle
    /\ ClientIdle
    /\ ConstructIdle
    /\ TimerangeIdle
    /\ ClassIdle
    /\ ReportIdle
    /\ CoordIdle
    /\ ObsIdle
    /\ cache = EmptyDict
    /\ upserts = <<>>
    /\ base_nu_name \in EventNames
    /\ event_known \in BOOLEAN
    /\ circulars \in CircularLists
    /\ gcn_fn = "none"
    /\ gcn_out = <<>>

GcnUnchanged ==
    UNCHANGED <<base_nu_name, event_known, circulars, skyVars, cacheVars,
                mergeVars, scanVars, filterVars, clientVars, constructVars,
                timerangeVars, classVars, reportVars, coordVars, obsVars>>

Call_find_gcn_no ==
    /\ gcn_fn = "none"
    /\ gcn_fn' = "find_gcn_no"
    /\ gcn_out' = find_gcn_no(base_nu_name, event_known, circulars)
    /\ GcnUnchanged

Call_get_latest_gcn ==
    /\ gcn_fn = "none"
    /\ gcn_fn' = "get_latest_gcn"
    /\ gcn_out' = get_latest_gcn(circulars)
    /\ GcnUnchanged

GcnNext == Call_find_gcn_no \/ Call_get_latest_gcn

GcnSpec == GcnInit /\ [][GcnNext]_vars

\* C25: get_latest_gcn returns the number of the most recent circular: no
\* circular of the answer has a later received date than the one returned.
C25_LatestGcnIsMostRecent ==
    (gcn_fn = "get_latest_gcn" /\ circulars # <<>>) =>
        \E k \in DOMAIN circulars :
            /\ gcn_out = Returned(circulars[k].cid)
            /\ \A j \in DOMAIN circulars :
                  Mjd(circulars[j].received) <= Mjd(circulars[k].received)

\* The circulars of the event whose subject has both words
HighEnergyNeutrinoCirculars ==
    {k \in DOMAIN circulars : SubjectFilter(circulars[k])}

\* C26: find_gcn_no returns the earliest-received circular whose subject
\* has both "neutrino" and "high-energy", and returns None, without
\* raising, when there is none: when the event is unknown, and when the
\* event exists but no circular passes the subject filter.  (Stated for
\* the names that are not hard-coded.)
C26_FindGcnNoEarliestOrNone ==
    (gcn_fn = "find_gcn_no" /\ base_nu_name \notin {"IC220405B", "IC231004A"}) =>
        IF event_known /\ HighEnergyNeutrinoCirculars # {}
        THEN \E k \in HighEnergyNeutrinoCirculars :
                /\ gcn_out = Returned(circulars[k].cid)
                /\ \A j \in HighEnergyNeutrinoCirculars :
                      Mjd(circulars[k].received) <= Mjd(circulars[j].received)
        ELSE gcn_out = ReturnedNone

-----------------------------------------------------------------------------
(* observation_log: get_obs_summary and get_most_recent_obs                *)
(* Times are in half days; the night (calendar date) of time t is t \div 2. *)

MaxObsCalls == 2     \* direct get_obs_summary calls in one behaviour (bound)
MaxDayRange == 15    \* day_range up to which the loop is followed (bound)
LookbackDays == 2    \* the 30 days of Time.now() - 30. * u.day, scaled

\* str(t_min).split("T")[0]: the calendar date of a time
DateOf(t) == t \div 2

\* The observations there may be: a time and a field each.
ObsUniverse == [t : {2, 3, 5}, field : {1, 2}]

\* max_days: None is <<>>, a number n is <<n>>
MaxDaysArgs == {<<>>, <<0>>, <<1>>}

\* end_date: the date max_days after the date of t_min, or today
EndDate(t, max_days) ==
    IF max_days # <<>> THEN DateOf(t) + max_days[1] ELSE DateOf(obs_now)

\* The nightly log of the server for one night
ServerNight(night) == {o \in server_log : DateOf(o.t) = night}

\* skyvision.CompletedLog.from_daterange(start, end): the logs of the nights
\* start..end, both included, each read from its cached csv file when there
\* is one and downloaded otherwise.
from_daterange(files, first, last) ==
    [night \in first..last |->
        IF night \in DOMAIN files THEN files[night] ELSE ServerNight(night)]

\* The cache directory once every ".csv" file has been removed
Cleared == [night \in {} |-> {}]

\* The logs get_obs_summary reads: the cache is cleared, then every night of
\* the range is downloaded.
LogsRead(t, max_days) ==
    from_daterange(Cleared, DateOf(t), EndDate(t, max_days))

\* mns.data.query(f"obsjd > {start_date_jd}") on the logs read
get_obs_summary(t, max_days) ==
    {o \in UNION {LogsRead(t, max_days)[night] :
                      night \in DOMAIN LogsRead(t, max_days)} : o.t > t}

\* The stale cache directories drawn: empty, or an incomplete (empty) csv for
\* night 1.
StaleCaches == {Cleared, [night \in {1} |-> {}]}

ObsInit ==
    /\ SkyIdle
    /\ MergeIdle
    /\ ScanIdle
    /\ FilterIdle
    /\ ClientIdle
    /\ ConstructIdle
    /\ TimerangeIdle
    /\ ClassIdle
    /\ ReportIdle
    /\ CoordIdle
    /\ GcnIdle
    /\ cache = EmptyDict
    /\ upserts = <<>>
    /\ server_log \in SUBSET ObsUniverse
    /\ csv_cache \in StaleCaches
    /\ obs_now = 7
    /\ obs_out = <<>>
    /\ mro_caller \in {"irsa", "direct"}
    /\ names_bound \in BOOLEAN
    /\ target_fields = {1}
    /\ mro_pos = "none"
    /\ day_range = 0
    /\ mro_windows = <<>>
    /\ mro_out = <<>>

ObsUnchanged ==
    UNCHANGED <<server_log, obs_now, mro_caller, names_bound, target_fields,
                skyVars, cacheVars, mergeVars, scanVars, filterVars,
                clientVars, constructVars, timerangeVars, classVars,
                reportVars, coordVars, gcnVars>>

\* What one get_obs_summary(t, max_days) call leaves behind: the rows it
\* returned, and the downloaded logs in the cache.
ObsCall(t, max_days) ==
    /\ obs_out' = Append(obs_out, [t_min |-> t, max_days |-> max_days,
                                   rows |-> get_obs_summary(t, max_days)])
    /\ csv_cache' = LogsRead(t, max_days)

\* get_obs_summary(t_min, max_days) called on its own.
GetObsSummary ==
    \E t \in {2, 3}, max_days \in MaxDaysArgs :
        /\ Len(obs_out) < MaxObsCalls
        /\ mro_pos = "none"
        /\ ObsCall(t, max_days)
        /\ UNCHANGED <<mro_pos, day_range, mro_windows, mro_out>>
        /\ ObsUnchanged

\* plot_irsa_lightcurve calls get_most_recent_obs(ra=, dec=,
\* lookback_weeks_max=, logger=): the function takes (ra, dec) only.
Mro_Call_TypeError ==
    /\ mro_pos = "none"
    /\ mro_caller = "irsa"
    /\ mro_pos' = "TypeError"
    /\ UNCHANGED <<csv_cache, obs_out, day_range, mro_windows, mro_out>>
    /\ ObsUnchanged

\* get_most_recent_obs(ra, dec): logger is not a name of the module, and
\* logger.info raises NameError.
Mro_Call_NameError ==
    /\ mro_pos = "none"
    /\ mro_caller = "direct"
    /\ ~names_bound
    /\ mro_pos' = "NameError"
    /\ UNCHANGED <<csv_cache, obs_out, day_range, mro_windows, mro_out>>
    /\ ObsUnchanged

\* With logger, np and u bound: mask = 0., day_range = 5., and the loop is
\* entered.
Mro_Call_Enter ==
    /\ mro_pos = "none"
    /\ mro_caller = "direct"
    /\ names_bound
    /\ mro_pos' = "loop"
    /\ day_range' = 5
    /\ UNCHANGED <<csv_cache, obs_out, mro_windows, mro_out>>
    /\ ObsUnchanged

\* The rows of the query of one iteration that are in a field of the target
Masked == {o \in get_obs_summary(obs_now - 2 * LookbackDays, <<>>) :
              o.field \in target_fields}

\* One iteration that finds no observation of the target's fields:
\* day_range += 5. and the loop goes on.
Mro_Iterate_Empty ==
    /\ mro_pos = "loop"
    /\ day_range < MaxDayRange
    /\ Masked = {}
    /\ ObsCall(obs_now - 2 * LookbackDays, <<>>)
    /\ mro_windows' = Append(mro_windows, LookbackDays)
    /\ day_range' = day_range + 5
    /\ UNCHANGED <<mro_pos, mro_out>>
    /\ ObsUnchanged

\* One iteration that finds observations: the loop ends, and the first row
\* of the log that has the latest datetime of the masked rows is returned
\* (the order of the rows is the server's).
Mro_Iterate_Found ==
    /\ mro_pos = "loop"
    /\ Masked # {}
    /\ ObsCall(obs_now - 2 * LookbackDays, <<>>)
    /\ mro_windows' = Append(mro_windows, LookbackDays)
    /\ day_range' = day_range + 5
    /\ mro_out' \in
          {o \in get_obs_summary(obs_now - 2 * LookbackDays, <<>>) :
              \E m \in Masked : o.t = m.t /\ \A q \in Masked : q.t <= m.t}
    /\ mro_pos' = "returned"
    /\ ObsUnchanged

ObsNext ==
    \/ GetObsSummary
    \/ Mro_Call_TypeError
    \/ Mro_Call_NameError
    \/ Mro_Call_Enter
    \/ Mro_Iterate_Empty
    \/ Mro_Iterate_Found

ObsSpec == ObsInit /\ [][ObsNext]_vars

\* C27: get_obs_summary returns only observations inside the requested
\* window: every row is strictly later than t_min and not later than the
\* requested end of the window (max_days after t_min, or now), and two
\* calls for the same window, fully in the past, return the same rows,
\* whatever stale nightly logs the cache held.
C27_RowsInsideWindowAndRepeatable ==
    \A k \in DOMAIN obs_out :
        LET c == obs_out[k]
            window_end == IF c.max_days # <<>>
                          THEN c.t_min + 2 * c.max_days[1]
                          ELSE obs_now
        IN /\ \A o \in c.rows : o.t > c.t_min /\ o.t <= window_end
           /\ \A j \in DOMAIN obs_out :
                 (/\ obs_out[j].t_min = c.t_min
                  /\ obs_out[j].max_days = c.max_days
                  /\ c.max_days # <<>>
                  /\ EndDate(c.t_min, c.max_days) < DateOf(obs_now))
                     => obs_out[j].rows = c.rows

\* C28: get_most_recent_obs terminates for every target: it does not
\* raise, and while no observation of the target's fields is in the
\* lookback window every iteration queries a wider window than the one
\* before, instead of repeating the same query.
C28_MostRecentObsWidensAndReturns ==
    /\ mro_pos \notin {"TypeError", "NameError"}
    /\ \A k \in 2..Len(mro_windows) : mro_windows[k] > mro_windows[k - 1]

====
